---- MODULE Spec2Model ----
(***************************************************************************)
(* Model of the sandbox container runtime: the double-fork lifecycle of    *)
(* container::runc (parent P, child C, grandchild G), the socket-pair      *)
(* handshake, the credential / capability transitions, the signal-aware    *)
(* wait Proc::park, and the exit of the command-line entry points.         *)
(***************************************************************************)
EXTENDS Integers, Sequences, FiniteSets, TLC

(* ----------------------------- bounds --------------------------------- *)
\* external terminating signals delivered to the parked processes
MaxExt == 3
\* the inner command exits with a code in 0..MaxCode
MaxCode == 2
\* calls and system calls recorded for a client of the Proc API
MaxHist == 8
\* calls of IdMap::add on one IdMap
MaxAdds == 2
\* options on the command line of isolate
MaxOpts == 3
\* lines of a mountinfo file
MaxLines == 2
\* iterations of a loop that are told apart
MaxSpin == 2
\* mount points Mounts::current() lists
MaxMounts == 2

(* ------------------------ program constants --------------------------- *)
SIGINT == 2
SIGQUIT == 3
SIGKILL == 9
SIGTERM == 15
SIGCHLD == 17
CAP_SETGID == 6
CAP_SETUID == 7
CAP_SYS_ADMIN == 21

Procs == {"P", "C", "G"}
Parkers == {"P", "C"}
Entries == {"nonet", "hidehome", "isolate"}
Scenarios == {"root", "suid", "userns"}
ExitCodes == 0..MaxCode
\* the signals Proc::park registers with the signal iterator
ParkSignals == {SIGTERM, SIGINT, SIGQUIT, SIGCHLD}
\* terminating signals a user sends to a parked process
ExtSignals == {SIGTERM, SIGINT}
FullCaps == {CAP_SETGID, CAP_SETUID, CAP_SYS_ADMIN}

VARIABLES
    entry,      \* which binary's main() called runc
    scenario,   \* how the binary was started: as root, set-uid root, or plain user using a user namespace
    pc,         \* position of each process in its code
    life,       \* "none" (not forked), "run", "zombie" (terminated, not reaped), "reaped"
    wstatus,    \* raw wait status of a terminated process
    cred,       \* [ruid, euid, rgid, egid] of each process
    caps,       \* Cap triple [effective, permitted, inheritable] of each process
    parentEnd,  \* processes holding an open descriptor of the parent's socket end
    childEnd,   \* processes holding an open descriptor of the child's socket end
    toParent,   \* bytes written to the child's end, not yet read by the parent
    toChild,    \* bytes written to the parent's end, not yet read by the child
    msg,        \* handle_parent: the one-byte buffer msg[0]
    log,        \* one character per hook invocation, as tests::TestHooks::at
    res,        \* result of each hook invocation ("none" before it is invoked)
    proc,       \* the Proc handle held by P (for C) and by C (for G): [done, code]
    cnt,        \* Proc::park: the local cnt
    installed,  \* Proc::park: Signals::new has registered the handlers
    hpend,      \* signals recorded by the handlers, not yet returned by isig.next()
    kpend,      \* signals pending in the kernel for each process
    fwd,        \* history: <<received, forwarded>> for every signal park forwarded
    sentTo,     \* history: signals sent to each process with kill()
    ext,        \* history: number of signals sent to the orchestrator from outside
    ret,        \* the value runc returned: [kind, code]
    mainExit,   \* exit code of the entry point (-1 while running)
    envFail,    \* history: processes in which a system call of the orchestrator failed
    dropped,    \* history: processes that completed the privilege drop before park
    born,       \* credentials and capabilities G had when it was forked
    faults,     \* environment: what may fail, a subset of {"hooks", "syscalls"}
    released,   \* history: the parent has written the release byte
    \* a client of the Proc API (proc.rs) holding one handle
    hnd,        \* the Proc handle: [done, code]
    held,       \* the handle has not been dropped
    mproc,      \* the managed process: [life, status, pend]
    ppc,        \* the client's position: "idle", or inside park "trywait" / "next"
    psig,       \* signals recorded for the client's signal iterator
    pcnt,       \* Proc::park: the local cnt
    hist,       \* history: API calls made and system calls issued, in order
    \* a caller of the IdMap API (container.rs) building and applying one map
    idm,        \* the IdMap: [pid, isuid, map], map a function from start to <<end, count>>
    ipc,        \* "none" (not constructed), "open" (constructed), "done" (write has returned)
    adds,       \* history: the arguments <<start, end, count>> of the add calls, in order
    eff,        \* the effective capability set Cap::current() returned to write
    wr,         \* what write did and returned: [path, target, data, argv, helper, result]
    \* main of bin/isolate.rs building the mount plan, and the user binds of setup_priv
    cwd,        \* main: the local cwd
    lastC,      \* history: the directory the last -C selected ("none" without -C)
    allownet,   \* main: the local allownet
    mounts,     \* main: the local mounts, later Isolate.mounts: a sequence of <<type, path>>
    nopts,      \* number of options consumed from the command line
    mainpc,     \* "parse", "planned", "bind", "tmpfs", "mounted", "pivoted", or how it ended: "exit0", "exit1", "err"
    plan0,      \* history: mounts as it entered the removal of duplicates
    mi,         \* setup_priv: number of items the running loop over self.mounts has handled
    mlog,       \* history: the mount calls of the user binds, in order: <<kind, path>>
    used,       \* history: the kinds of option consumed: "N", "c", "m" (-W, -O, -T), "C", "h", "?"
    stdir,      \* Isolate.tdir: the staging directory TempDir::new made (<<>> before)
    \* Mounts::parse (fs.rs) reading one mountinfo file
    mpc,        \* "idle", "lines" (the for loop), "head", "skip", "tail" (inside parse_line), "done"
    lino,       \* number of lines taken from the file so far
    liter,      \* parse_line: the tokens the iterator has not returned yet
    partial,    \* parse_line: the fields bound so far
    infos,      \* parse: the map infos, a function from mount point to MountInfo
    mres,       \* what parse returned: "none", "ok", "MissingMount", "ParseError"
    spins,      \* parse_line: iterations of the loop made with the iterator exhausted
    \* find_mount_point (fs.rs) called once on a file system that does not change
    fmpc,       \* "idle", "loop", "done"
    fmarg,      \* the argument: [abs, comps], an absolute or relative sequence of names
    fmstat,     \* what stat gives for each existing file or directory: [dev, ino]
    fmpath,     \* path: the canonical path, a sequence of names below "/"
    fmdir,      \* dir: the directory the loop is at
    fmres,      \* what was returned: [ok, path]
    \* HideHome::setup_priv (hidehome.rs) run once in the grandchild
    hhpc,       \* "idle", "calls" (the mkdirs, mount and chdir calls), "done"
    hhenv,      \* the environment: [home, cwd], $HOME and the working directory
    hhtodo,     \* the calls not made yet, in order: <<call, target>>
    hhlog,      \* history: the calls made, in order
    hhres,      \* what was returned: "none", "ok", or the step that failed
    \* Isolate::setup_priv (bin/isolate.rs) from its entry to the user binds
    wpc,        \* "idle", "stage", "walk" (the loop over the mounts), "special", "done"
    wuser,      \* self.isuser
    wnet,       \* self.allownet
    wtodo,      \* the calls of the running phase not made yet: <<function, target>>
    wlog,       \* history: the visits and calls made, in order: [call, at, out]
    wres        \* how it went on: "none", "err" (returned the error), "binds" (the user binds)

lifecycleVars ==
    <<entry, scenario, pc, life, wstatus, cred, caps, parentEnd, childEnd,
      toParent, toChild, msg, log, res, proc, cnt, installed, hpend, kpend,
      fwd, sentTo, ext, ret, mainExit, envFail, dropped, born, faults, released>>

procVars == <<hnd, held, mproc, ppc, psig, pcnt, hist>>

idmapVars == <<idm, ipc, adds, eff, wr>>

\* the variables the container lifecycle leaves alone
planVars == <<cwd, lastC, allownet, mounts, nopts, mainpc, plan0, mi, mlog, used, stdir>>

fsVars == <<mpc, lino, liter, partial, infos, mres, spins,
           fmpc, fmarg, fmstat, fmpath, fmdir, fmres,
           hhpc, hhenv, hhtodo, hhlog, hhres>>

walkVars == <<wpc, wuser, wnet, wtodo, wlog, wres>>

otherVars == <<procVars, idmapVars, planVars, fsVars, walkVars>>

\* the variables a client of the Proc API leaves alone
exceptProc == <<lifecycleVars, idmapVars, planVars, fsVars, walkVars>>

\* the variables a caller of the IdMap API leaves alone
exceptIdMap == <<lifecycleVars, procVars, planVars, fsVars, walkVars>>

\* the variables the mount plan of isolate leaves alone
exceptPlan == <<lifecycleVars, procVars, idmapVars, fsVars, walkVars>>

fmVars == <<fmpc, fmarg, fmstat, fmpath, fmdir, fmres>>

hhVars == <<hhpc, hhenv, hhtodo, hhlog, hhres>>

mountsVars == <<mpc, lino, liter, partial, infos, mres, spins>>

\* the variables Mounts::parse, find_mount_point and HideHome leave alone
exceptFs == <<lifecycleVars, procVars, idmapVars, planVars, walkVars>>

\* the variables the staging of the new root leaves alone
exceptWalk == <<lifecycleVars, procVars, idmapVars, planVars, fsVars>>

vars == <<lifecycleVars, otherVars>>

\* Proc::manage(pid) of a running process
ProcInit ==
    /\ hnd = [done |-> FALSE, code |-> -1]
    /\ held = TRUE
    /\ mproc = [life |-> "run", status |-> 0, pend |-> {}]
    /\ ppc = "idle"
    /\ psig = {}
    /\ pcnt = 0
    /\ hist = <<>>

\* no IdMap constructed yet
NoHelper == [kind |-> "none", code |-> -1]

NoWrite == [path |-> "none", target |-> "", data |-> <<>>, argv |-> <<>>,
            helper |-> NoHelper, result |-> "none"]

IdMapInit ==
    /\ idm = [pid |-> 0, isuid |-> TRUE, map |-> <<>>]
    /\ ipc = "none"
    /\ adds = <<>>
    /\ eff = {}
    /\ wr = NoWrite

\* the directory isolate is started in: env::current_dir()?.canonicalize()?
InitialCwd == "/a"

\* main of isolate before the option loop: mounts holds (Writable, cwd)
PlanInit ==
    /\ cwd = InitialCwd
    /\ lastC = "none"
    /\ allownet = FALSE
    /\ mounts = << <<"Writable", InitialCwd>> >>
    /\ nopts = 0
    /\ mainpc = "parse"
    /\ plan0 = <<>>
    /\ mi = 0
    /\ mlog = <<>>
    /\ used = {}
    /\ stdir = <<>>

\* Mounts::parse not called yet
FsInit ==
    /\ mpc = "idle"
    /\ lino = 0
    /\ liter = <<>>
    /\ partial = <<>>
    /\ infos = <<>>
    /\ mres = "none"
    /\ spins = 0
    /\ fmpc = "idle"
    /\ fmarg = [abs |-> FALSE, comps |-> <<>>]
    /\ fmstat = <<>>
    /\ fmpath = <<>>
    /\ fmdir = <<>>
    /\ fmres = [ok |-> FALSE, path |-> <<>>]
    /\ hhpc = "idle"
    /\ hhenv = [home |-> [ok |-> FALSE, path |-> <<>>], cwd |-> <<>>]
    /\ hhtodo = <<>>
    /\ hhlog = <<>>
    /\ hhres = "none"

\* no mount listed before a call of the staging
NoMount == [mount_point |-> "", fstype |-> "", source |-> "", rdonly |-> FALSE]

\* setup_priv not called yet
WalkInit ==
    /\ wpc = "idle"
    /\ wuser = FALSE
    /\ wnet = FALSE
    /\ wtodo = <<>>
    /\ wlog = <<>>
    /\ wres = "none"

InitRest == ProcInit /\ IdMapInit /\ PlanInit /\ FsInit /\ WalkInit

(* ----------------------- capability.rs: Cap --------------------------- *)
NoCaps == [effective |-> {}, permitted |-> {}, inheritable |-> {}]

\* faulty variant of Cap::activate: the masks are left as they are
Cap_activate_Noop(k) == k

Cap_activate(k) == [k EXCEPT !.effective = k.permitted]

Cap_clear_effective(k) == [k EXCEPT !.effective = {}]

Cap_clear_permitted(k) == [k EXCEPT !.permitted = {}]

Cap_clear_inheritable(k) == [k EXCEPT !.inheritable = {}]

\* faulty variant of Cap::clear: the permitted mask is left as it is
Cap_clear_KeepPermitted(k) == Cap_clear_inheritable(Cap_clear_effective(k))

Cap_clear(k) == Cap_clear_inheritable(Cap_clear_permitted(Cap_clear_effective(k)))

(* ------------------------ user.rs: credentials ------------------------ *)
\* setegid(getgid())
setegid_real(c) == [c EXCEPT !.egid = c.rgid]

\* seteuid(getuid())
seteuid_real(c) == [c EXCEPT !.euid = c.ruid]

\* kernel side effect of seteuid: leaving euid 0 clears the effective set
CapsAfterSeteuid(c, k) ==
    IF c.euid = 0 /\ c.ruid # 0 THEN Cap_clear_effective(k) ELSE k

InitCred(sc) ==
    IF sc = "root" THEN [ruid |-> 0, euid |-> 0, rgid |-> 0, egid |-> 0]
    ELSE IF sc = "suid" THEN [ruid |-> 1000, euid |-> 0, rgid |-> 1000, egid |-> 0]
    ELSE [ruid |-> 1000, euid |-> 1000, rgid |-> 1000, egid |-> 1000]

InitCaps(sc) ==
    IF sc = "userns" THEN NoCaps
    ELSE [effective |-> FullCaps, permitted |-> FullCaps, inheritable |-> {}]

(* --------------------------- wait status ------------------------------ *)
\* status reported by waitpid for exit(code)
StatusExit(code) == (code % 256) * 256

\* status reported by waitpid for a process terminated by signal sig
StatusSignaled(sig) == sig

\* faulty variant of WEXITSTATUS: the low byte of the status instead of bits 8..15
WEXITSTATUS_LowByte(sts) == sts % 256

\* libc::WEXITSTATUS
WEXITSTATUS(sts) == (sts \div 256) % 256

(* ------------------------------ helpers ------------------------------- *)
Parent(p) == IF p = "C" THEN "P" ELSE IF p = "G" THEN "C" ELSE "none"

Managed(p) == IF p = "P" THEN "C" ELSE "G"

\* process t has a handler registered for signal s
Handles(t, s) == t \in Parkers /\ installed[t] /\ s \in ParkSignals

\* kill(t, s) on a live target: kernel-pending part.  A signal whose handler
\* is registered is recorded by the handler instead (PostH)
PostK(kp, lf, t, s) ==
    IF t \in Procs /\ lf[t] = "run" /\ ~Handles(t, s)
       THEN [kp EXCEPT ![t] = @ \cup {s}] ELSE kp

\* kill(t, s) on a live target: the registered handler records the signal
PostH(hp, lf, t, s) ==
    IF t \in Procs /\ lf[t] = "run" /\ Handles(t, s)
       THEN [hp EXCEPT ![t] = @ \cup {s}] ELSE hp

\* process p terminates with wait status st: its descriptors close and its
\* parent is sent SIGCHLD; lf, kp, hp are the life, kpend, hpend to start from
Terminate(p, st, lf, kp, hp) ==
    /\ life' = [lf EXCEPT ![p] = "zombie"]
    /\ wstatus' = [wstatus EXCEPT ![p] = st]
    /\ parentEnd' = parentEnd \ {p}
    /\ childEnd' = childEnd \ {p}
    /\ kpend' = [PostK(kp, lf, Parent(p), SIGCHLD) EXCEPT ![p] = {}]
    /\ hpend' = PostH(hp, lf, Parent(p), SIGCHLD)

\* the state when main() calls runc, for entry point e started as sc
InitOf(e, sc, flt) ==
    /\ entry = e
    /\ scenario = sc
    /\ faults = flt
    /\ pc = [p \in Procs |-> IF p = "P" THEN "at_start" ELSE "none"]
    /\ life = [p \in Procs |-> IF p = "P" THEN "run" ELSE "none"]
    /\ wstatus = [p \in Procs |-> 0]
    /\ cred = [p \in Procs |-> InitCred(scenario)]
    /\ caps = [p \in Procs |-> InitCaps(scenario)]
    /\ parentEnd = {}
    /\ childEnd = {}
    /\ toParent = <<>>
    /\ toChild = <<>>
    /\ msg = "0"
    /\ log = <<>>
    /\ res = [h \in {"at_start", "unshare", "set_id_map", "setup_priv", "setup"} |-> "none"]
    /\ proc = [p \in Parkers |-> [done |-> FALSE, code |-> -1]]
    /\ cnt = [p \in Parkers |-> 0]
    /\ installed = [p \in Parkers |-> FALSE]
    /\ hpend = [p \in Parkers |-> {}]
    /\ kpend = [p \in Procs |-> {}]
    /\ fwd = [p \in Parkers |-> <<>>]
    /\ sentTo = [p \in Procs |-> {}]
    /\ ext = 0
    /\ ret = [kind |-> "none", code |-> -1]
    /\ mainExit = -1
    /\ envFail = {}
    /\ dropped = {}
    /\ born = [cred |-> InitCred(scenario), caps |-> NoCaps]
    /\ released = FALSE

\* the calls of a privilege change that may fail in this environment
MayFail(calls) == IF "syscalls" \in faults THEN calls ELSE {}

\* results a hook may return in this environment: any of rs, or only good
HookResults(rs, good) == IF "hooks" \in faults THEN rs ELSE {good}

\* outcomes of a fork or socketpair: TRUE is success
ForkOutcomes == IF "syscalls" \in faults THEN BOOLEAN ELSE {TRUE}

(* ------------------- privilege changes before park -------------------- *)
\* the system calls of a privilege change, in program order; any may fail
PrivCalls == {"setegid", "seteuid", "capget", "capset"}

\* faulty variant of the drop: seteuid(getuid()) is left out
CredAfter_KeepEuid(c, f) == IF f = "setegid" THEN c ELSE setegid_real(c)

\* credentials after setegid(getgid()); seteuid(getuid()) when call f fails ("none": no failure)
CredAfter(c, f) ==
    IF f = "setegid" THEN c
    ELSE IF f = "seteuid" THEN setegid_real(c)
    ELSE seteuid_real(setegid_real(c))

\* capabilities after the same calls followed by Cap::current()?.clear().update()?
CapsAfterDrop(c, k, f) ==
    IF f \in {"setegid", "seteuid"} THEN k
    ELSE IF f \in {"capget", "capset"} THEN CapsAfterSeteuid(setegid_real(c), k)
    ELSE Cap_clear(CapsAfterSeteuid(setegid_real(c), k))

\* capabilities after the same calls followed by Cap::current()?.activate().update()?
CapsAfterActivate(c, k, f) ==
    IF f \in {"setegid", "seteuid"} THEN k
    ELSE IF f \in {"capget", "capset"} THEN CapsAfterSeteuid(setegid_real(c), k)
    ELSE Cap_activate(CapsAfterSeteuid(setegid_real(c), k))

(* --------------------- container.rs: runc, parent --------------------- *)
\* faulty variant of the error return of handle_parent: the Proc handle is
\* forgotten instead of dropped, no SIGKILL is sent
ParentReturnErr_NoKill ==
    /\ ret' = [kind |-> "err", code |-> -1]
    /\ pc' = [pc EXCEPT !["P"] = "returned"]
    /\ parentEnd' = parentEnd \ {"P"}
    /\ UNCHANGED <<kpend, sentTo>>

\* handle_parent returns Err: the Proc handle is dropped (Drop for Proc sends
\* SIGKILL unless done) and the socket tochild is closed
ParentReturnErr ==
    /\ ret' = [kind |-> "err", code |-> -1]
    /\ pc' = [pc EXCEPT !["P"] = "returned"]
    /\ parentEnd' = parentEnd \ {"P"}
    /\ IF ~proc["P"].done
          THEN /\ kpend' = PostK(kpend, life, "C", SIGKILL)
               /\ sentTo' = [sentTo EXCEPT !["C"] = @ \cup {SIGKILL}]
          ELSE UNCHANGED <<kpend, sentTo>>

RuncAtStart ==
    /\ pc["P"] = "at_start"
    /\ \E r \in HookResults({"ok", "err"}, "ok") :
        /\ log' = Append(log, "A")
        /\ res' = [res EXCEPT !["at_start"] = r]
        /\ IF r = "ok"
              THEN /\ pc' = [pc EXCEPT !["P"] = "fork"]
                   /\ UNCHANGED ret
              ELSE /\ pc' = [pc EXCEPT !["P"] = "returned"]
                   /\ ret' = [kind |-> "err", code |-> -1]
    /\ UNCHANGED <<otherVars, entry, scenario, faults, released, life, wstatus, cred, caps, parentEnd, childEnd,
                   toParent, toChild, msg, proc, cnt, installed, hpend, kpend,
                   fwd, sentTo, ext, mainExit, envFail, dropped, born>>

\* socketpair(); fork(|| handle_child(..)); drop(child)
RuncFork ==
    /\ pc["P"] = "fork"
    /\ \E ok \in ForkOutcomes :
        IF ok
        THEN /\ life' = [life EXCEPT !["C"] = "run"]
             /\ pc' = [pc EXCEPT !["P"] = "p_read", !["C"] = "unshare"]
             /\ cred' = [cred EXCEPT !["C"] = cred["P"]]
             /\ caps' = [caps EXCEPT !["C"] = caps["P"]]
             /\ parentEnd' = {"P", "C"}
             /\ childEnd' = {"C"}
             /\ UNCHANGED <<ret, envFail>>
        ELSE /\ pc' = [pc EXCEPT !["P"] = "returned"]
             /\ ret' = [kind |-> "err", code |-> -1]
             /\ envFail' = envFail \cup {"P"}
             /\ UNCHANGED <<life, cred, caps, parentEnd, childEnd>>
    /\ UNCHANGED <<otherVars, entry, scenario, faults, released, wstatus, toParent, toChild, msg, log, res, proc,
                   cnt, installed, hpend, kpend, fwd, sentTo, ext, mainExit,
                   dropped, born>>

\* faulty variant of the parent's read: on '.' the release byte is written at
\* once, before set_id_map is called
HandleParentRead_EagerRelease ==
    /\ pc["P"] = "p_read"
    /\ toParent # <<>>
    /\ msg' = Head(toParent)
    /\ toParent' = Tail(toParent)
    /\ toChild' = IF msg' = "." THEN Append(toChild, ".") ELSE toChild
    /\ pc' = [pc EXCEPT !["P"] = IF msg' = "." THEN "p_idmap" ELSE "p_drop"]
    /\ UNCHANGED <<otherVars, entry, scenario, faults, released, life, wstatus, cred, caps, childEnd,
                   log, res, proc, cnt, installed, hpend, fwd, ext, mainExit, dropped,
                   born, ret, parentEnd, kpend, sentTo, envFail>>

\* faulty variant of the parent's read: whatever was read, set_id_map is next
HandleParentRead_AlwaysMap ==
    /\ pc["P"] = "p_read"
    /\ \/ /\ toParent # <<>>
          /\ msg' = Head(toParent)
          /\ toParent' = Tail(toParent)
       \/ /\ toParent = <<>>
          /\ childEnd = {}
          /\ msg' = "!"
          /\ UNCHANGED toParent
    /\ pc' = [pc EXCEPT !["P"] = "p_idmap"]
    /\ UNCHANGED <<otherVars, entry, scenario, faults, released, life, wstatus, cred, caps, childEnd,
                   toChild, log, res, proc, cnt, installed, hpend, fwd,
                   ext, mainExit, dropped, born, ret, parentEnd, kpend, sentTo, envFail>>

\* tochild.read_exact(&mut msg): a byte, UnexpectedEof mapped to '!', or
\* another read error returned to the caller
HandleParentRead ==
    /\ pc["P"] = "p_read"
    /\ \/ /\ toParent # <<>>
          /\ msg' = Head(toParent)
          /\ toParent' = Tail(toParent)
          /\ pc' = [pc EXCEPT !["P"] = IF msg' = "." THEN "p_idmap" ELSE "p_drop"]
          /\ UNCHANGED <<ret, parentEnd, kpend, sentTo, envFail>>
       \/ /\ toParent = <<>>
          /\ childEnd = {}
          /\ msg' = "!"
          /\ pc' = [pc EXCEPT !["P"] = "p_drop"]
          /\ UNCHANGED <<toParent, ret, parentEnd, kpend, sentTo, envFail>>
       \/ /\ "syscalls" \in faults
          /\ ParentReturnErr
          /\ envFail' = envFail \cup {"P"}
          /\ UNCHANGED <<msg, toParent>>
    /\ UNCHANGED <<otherVars, entry, scenario, faults, released, life, wstatus, cred, caps, childEnd,
                   toChild, log, res, proc, cnt, installed, hpend, fwd,
                   ext, mainExit, dropped, born>>

\* hooks.set_id_map(&pid)?
HandleParentSetIdMap ==
    /\ pc["P"] = "p_idmap"
    /\ \E r \in HookResults({"ok", "err"}, "ok") :
        /\ log' = Append(log, "C")
        /\ res' = [res EXCEPT !["set_id_map"] = r]
        /\ IF r = "ok"
              THEN /\ pc' = [pc EXCEPT !["P"] = "p_release"]
                   /\ UNCHANGED <<ret, parentEnd, kpend, sentTo>>
              ELSE ParentReturnErr
    /\ UNCHANGED <<otherVars, entry, scenario, faults, released, life, wstatus, cred, caps, childEnd, toParent,
                   toChild, msg, proc, cnt, installed, hpend, fwd, ext, mainExit,
                   envFail, dropped, born>>

\* tochild.write_all(".")?
HandleParentRelease ==
    /\ pc["P"] = "p_release"
    /\ IF childEnd # {}
          THEN /\ toChild' = Append(toChild, ".")
               /\ released' = TRUE
               /\ pc' = [pc EXCEPT !["P"] = "p_drop"]
               /\ UNCHANGED <<ret, parentEnd, kpend, sentTo, envFail>>
          ELSE /\ ParentReturnErr
               /\ envFail' = envFail \cup {"P"}
               /\ UNCHANGED <<toChild, released>>
    /\ UNCHANGED <<otherVars, entry, scenario, faults, life, wstatus, cred, caps, childEnd, toParent,
                   msg, log, res, proc, cnt, installed, hpend, fwd, ext, mainExit,
                   dropped, born>>

\* setegid(getgid())?; seteuid(getuid())?; Cap::current()?.clear().update()?
HandleParentDrop ==
    /\ pc["P"] = "p_drop"
    /\ \E f \in MayFail(PrivCalls) \cup {"none"} :
        /\ cred' = [cred EXCEPT !["P"] = CredAfter(cred["P"], f)]
        /\ caps' = [caps EXCEPT !["P"] = CapsAfterDrop(cred["P"], caps["P"], f)]
        /\ IF f = "none"
              THEN /\ pc' = [pc EXCEPT !["P"] = "park"]
                   /\ dropped' = dropped \cup {"P"}
                   /\ UNCHANGED <<ret, parentEnd, kpend, sentTo, envFail>>
              ELSE /\ ParentReturnErr
                   /\ envFail' = envFail \cup {"P"}
                   /\ UNCHANGED dropped
    /\ UNCHANGED <<otherVars, entry, scenario, faults, released, life, wstatus, childEnd, toParent, toChild, msg,
                   log, res, proc, cnt, installed, hpend, fwd, ext, mainExit, born>>

(* ------------------------ container.rs: child ------------------------- *)
\* hooks.unshare(); PermissionDenied: print the hint and exit(1)
HandleChildUnshare ==
    /\ pc["C"] = "unshare" /\ life["C"] = "run"
    /\ \E r \in HookResults({"ok", "perm", "err"}, "ok") :
        /\ log' = Append(log, "B")
        /\ res' = [res EXCEPT !["unshare"] = r]
        /\ IF r = "perm"
              THEN /\ Terminate("C", StatusExit(1), life, kpend, hpend)
                   /\ pc' = [pc EXCEPT !["C"] = "dead"]
                   /\ UNCHANGED caps
              ELSE /\ pc' = [pc EXCEPT !["C"] = IF r = "ok" THEN "c_hello" ELSE "c_sendx"]
                   \* CLONE_NEWUSER gives the caller all capabilities in the new namespace
                   /\ caps' = IF r = "ok" /\ scenario = "userns"
                                 THEN [caps EXCEPT !["C"] = [effective |-> FullCaps,
                                                             permitted |-> FullCaps,
                                                             inheritable |-> {}]]
                                 ELSE caps
                   /\ UNCHANGED <<life, wstatus, parentEnd, childEnd, kpend, hpend>>
    /\ UNCHANGED <<otherVars, entry, scenario, faults, released, cred, toParent, toChild, msg, proc, cnt,
                   installed, fwd, sentTo, ext, ret, mainExit, envFail,
                   dropped, born>>

\* faulty variant of the error path of unshare: nothing is written and the
\* child goes on to wait for the parent
HandleChildSendX_NoNotify ==
    /\ pc["C"] = "c_sendx" /\ life["C"] = "run"
    /\ pc' = [pc EXCEPT !["C"] = "c_read"]
    /\ UNCHANGED <<otherVars, entry, scenario, faults, released, life, wstatus, cred, caps, parentEnd, childEnd,
                   toParent, toChild, msg, log, res, proc, cnt, installed, hpend, kpend, fwd,
                   sentTo, ext, ret, mainExit, envFail, dropped, born>>

\* unshare failed otherwise: toparent.write_all("X")?; Err(err)
HandleChildSendX ==
    /\ pc["C"] = "c_sendx" /\ life["C"] = "run"
    /\ toParent' = IF parentEnd # {} THEN Append(toParent, "X") ELSE toParent
    /\ pc' = [pc EXCEPT !["C"] = "err"]
    /\ UNCHANGED <<otherVars, entry, scenario, faults, released, life, wstatus, cred, caps, parentEnd, childEnd,
                   toChild, msg, log, res, proc, cnt, installed, hpend, kpend, fwd,
                   sentTo, ext, ret, mainExit, envFail, dropped, born>>

\* toparent.write_all(".")?
HandleChildHello ==
    /\ pc["C"] = "c_hello" /\ life["C"] = "run"
    /\ toParent' = Append(toParent, ".")
    /\ pc' = [pc EXCEPT !["C"] = "c_read"]
    /\ UNCHANGED <<otherVars, entry, scenario, faults, released, life, wstatus, cred, caps, parentEnd, childEnd,
                   toChild, msg, log, res, proc, cnt, installed, hpend, kpend, fwd,
                   sentTo, ext, ret, mainExit, envFail, dropped, born>>

\* faulty variant of the child's read: it does not wait for the release byte
HandleChildRead_NoWait ==
    /\ pc["C"] = "c_read" /\ life["C"] = "run"
    /\ toChild' = IF toChild # <<>> THEN Tail(toChild) ELSE toChild
    /\ childEnd' = childEnd \ {"C"}
    /\ pc' = [pc EXCEPT !["C"] = "c_fork"]
    /\ UNCHANGED <<otherVars, entry, scenario, faults, released, life, wstatus, cred, caps, parentEnd, toParent,
                   msg, log, res, proc, cnt, installed, hpend, kpend, fwd, sentTo,
                   ext, ret, mainExit, envFail, dropped, born>>

\* toparent.read_exact(&mut msg)?; drop(toparent)
HandleChildRead ==
    /\ pc["C"] = "c_read" /\ life["C"] = "run"
    /\ \/ /\ toChild # <<>>
          /\ toChild' = Tail(toChild)
          /\ childEnd' = childEnd \ {"C"}
          /\ pc' = [pc EXCEPT !["C"] = "c_fork"]
       \/ /\ toChild = <<>>
          /\ parentEnd = {}
          /\ childEnd' = childEnd \ {"C"}
          /\ pc' = [pc EXCEPT !["C"] = "err"]
          /\ UNCHANGED toChild
    /\ UNCHANGED <<otherVars, entry, scenario, faults, released, life, wstatus, cred, caps, parentEnd, toParent,
                   msg, log, res, proc, cnt, installed, hpend, kpend, fwd, sentTo,
                   ext, ret, mainExit, envFail, dropped, born>>

\* fork(|| handle_grandchild(hooks))?
HandleChildFork ==
    /\ pc["C"] = "c_fork" /\ life["C"] = "run"
    /\ \E ok \in ForkOutcomes :
        IF ok
        THEN /\ life' = [life EXCEPT !["G"] = "run"]
             /\ pc' = [pc EXCEPT !["C"] = "c_drop", !["G"] = "g_activate"]
             /\ cred' = [cred EXCEPT !["G"] = cred["C"]]
             /\ caps' = [caps EXCEPT !["G"] = caps["C"]]
             /\ born' = [cred |-> cred["C"], caps |-> caps["C"]]
             /\ parentEnd' = IF "C" \in parentEnd THEN parentEnd \cup {"G"} ELSE parentEnd
             /\ UNCHANGED envFail
        ELSE /\ pc' = [pc EXCEPT !["C"] = "err"]
             /\ envFail' = envFail \cup {"C"}
             /\ UNCHANGED <<life, cred, caps, born, parentEnd>>
    /\ UNCHANGED <<otherVars, entry, scenario, faults, released, wstatus, childEnd, toParent, toChild, msg, log,
                   res, proc, cnt, installed, hpend, kpend, fwd, sentTo, ext, ret,
                   mainExit, dropped>>

\* setegid(getgid())?; seteuid(getuid())?; Cap::current()?.clear().update()?
\* on Err the Proc handle of the grandchild is dropped: SIGKILL
HandleChildDrop ==
    /\ pc["C"] = "c_drop" /\ life["C"] = "run"
    /\ \E f \in MayFail(PrivCalls) \cup {"none"} :
        /\ cred' = [cred EXCEPT !["C"] = CredAfter(cred["C"], f)]
        /\ caps' = [caps EXCEPT !["C"] = CapsAfterDrop(cred["C"], caps["C"], f)]
        /\ IF f = "none"
              THEN /\ pc' = [pc EXCEPT !["C"] = "park"]
                   /\ dropped' = dropped \cup {"C"}
                   /\ UNCHANGED <<kpend, sentTo, envFail>>
              ELSE /\ pc' = [pc EXCEPT !["C"] = "err"]
                   /\ kpend' = PostK(kpend, life, "G", SIGKILL)
                   /\ sentTo' = [sentTo EXCEPT !["G"] = @ \cup {SIGKILL}]
                   /\ envFail' = envFail \cup {"C"}
                   /\ UNCHANGED dropped
    /\ UNCHANGED <<otherVars, entry, scenario, faults, released, life, wstatus, parentEnd, childEnd, toParent,
                   toChild, msg, log, res, proc, cnt, installed, hpend, fwd, ext,
                   ret, mainExit, born>>

(* --------------------- container.rs: grandchild ----------------------- *)
\* setegid(getgid())?; seteuid(getuid())?; Cap::current()?.activate().update()?
HandleGrandchildActivate ==
    /\ pc["G"] = "g_activate" /\ life["G"] = "run"
    /\ \E f \in MayFail(PrivCalls) \cup {"none"} :
        /\ cred' = [cred EXCEPT !["G"] = CredAfter(cred["G"], f)]
        /\ caps' = [caps EXCEPT !["G"] = CapsAfterActivate(cred["G"], caps["G"], f)]
        /\ pc' = [pc EXCEPT !["G"] = IF f = "none" THEN "setup_priv" ELSE "err"]
        /\ envFail' = IF f = "none" THEN envFail ELSE envFail \cup {"G"}
    /\ UNCHANGED <<otherVars, entry, scenario, faults, released, life, wstatus, parentEnd, childEnd, toParent,
                   toChild, msg, log, res, proc, cnt, installed, hpend, kpend, fwd,
                   sentTo, ext, ret, mainExit, dropped, born>>

\* faulty variant of the call of setup_priv: its Err is not propagated
HandleGrandchildSetupPriv_IgnoreErr ==
    /\ pc["G"] = "setup_priv" /\ life["G"] = "run"
    /\ \E r \in HookResults({"ok", "err"}, "ok") :
        /\ log' = Append(log, "D")
        /\ res' = [res EXCEPT !["setup_priv"] = r]
        /\ pc' = [pc EXCEPT !["G"] = "g_clear"]
    /\ UNCHANGED <<otherVars, entry, scenario, faults, released, life, wstatus, cred, caps, parentEnd, childEnd,
                   toParent, toChild, msg, proc, cnt, installed, hpend, kpend, fwd,
                   sentTo, ext, ret, mainExit, envFail, dropped, born>>

\* hooks.setup_priv()?
HandleGrandchildSetupPriv ==
    /\ pc["G"] = "setup_priv" /\ life["G"] = "run"
    /\ \E r \in HookResults({"ok", "err"}, "ok") :
        /\ log' = Append(log, "D")
        /\ res' = [res EXCEPT !["setup_priv"] = r]
        /\ pc' = [pc EXCEPT !["G"] = IF r = "ok" THEN "g_clear" ELSE "err"]
    /\ UNCHANGED <<otherVars, entry, scenario, faults, released, life, wstatus, cred, caps, parentEnd, childEnd,
                   toParent, toChild, msg, proc, cnt, installed, hpend, kpend, fwd,
                   sentTo, ext, ret, mainExit, envFail, dropped, born>>

\* Cap::current()?.clear().update()?
HandleGrandchildClear ==
    /\ pc["G"] = "g_clear" /\ life["G"] = "run"
    /\ \E f \in MayFail({"capget", "capset"}) \cup {"none"} :
        /\ caps' = [caps EXCEPT !["G"] = IF f = "none" THEN Cap_clear(caps["G"]) ELSE caps["G"]]
        /\ pc' = [pc EXCEPT !["G"] = IF f = "none" THEN "setup" ELSE "err"]
        /\ envFail' = IF f = "none" THEN envFail ELSE envFail \cup {"G"}
    /\ UNCHANGED <<otherVars, entry, scenario, faults, released, life, wstatus, cred, parentEnd, childEnd,
                   toParent, toChild, msg, log, res, proc, cnt, installed, hpend,
                   kpend, fwd, sentTo, ext, ret, mainExit, dropped, born>>

\* hooks.setup()?: the hook returns Ok or Err, or replaces the process image
\* by the inner command (Exec::exec)
HandleGrandchildSetup ==
    /\ pc["G"] = "setup" /\ life["G"] = "run"
    /\ \E r \in HookResults({"ok", "err", "exec"}, "exec") :
        /\ log' = Append(log, "E")
        /\ res' = [res EXCEPT !["setup"] = r]
        /\ pc' = [pc EXCEPT !["G"] = IF r = "ok" THEN "ok" ELSE IF r = "err" THEN "err" ELSE "cmd"]
    /\ UNCHANGED <<otherVars, entry, scenario, faults, released, life, wstatus, cred, caps, parentEnd, childEnd,
                   toParent, toChild, msg, proc, cnt, installed, hpend, kpend, fwd,
                   sentTo, ext, ret, mainExit, envFail, dropped, born>>

\* the inner command exits with code c
CommandExit ==
    /\ pc["G"] = "cmd" /\ life["G"] = "run"
    /\ \E c \in ExitCodes : Terminate("G", StatusExit(c), life, kpend, hpend)
    /\ pc' = [pc EXCEPT !["G"] = "dead"]
    /\ UNCHANGED <<otherVars, entry, scenario, faults, released, cred, caps, toParent, toChild, msg, log, res,
                   proc, cnt, installed, fwd, sentTo, ext, ret, mainExit,
                   envFail, dropped, born>>

\* fork(closure): in the forked process the closure returned; Err is logged
\* and the process exits with code 1, Ok exits with code 0
ForkedExit(p) ==
    /\ p \in {"C", "G"}
    /\ pc[p] \in {"ok", "err"} /\ life[p] = "run"
    /\ Terminate(p, StatusExit(IF pc[p] = "err" THEN 1 ELSE 0), life, kpend, hpend)
    /\ pc' = [pc EXCEPT ![p] = "dead"]
    /\ UNCHANGED <<otherVars, entry, scenario, faults, released, cred, caps, toParent, toChild, msg, log, res,
                   proc, cnt, installed, fwd, sentTo, ext, ret, mainExit,
                   envFail, dropped, born>>

(* -------------------------- proc.rs: Proc ----------------------------- *)
Parked(p) == life[p] = "run" /\ pc[p] \in {"trywait", "next"}

\* Proc::park returns Err to its caller (pid.park()?): handle_parent returns
\* Err; handle_child returns Err, which drops the grandchild's Proc handle
\* (SIGKILL) before the forked child exits
ParkReturnErr(p) ==
    /\ envFail' = envFail \cup {p}
    /\ IF p = "P"
          THEN ParentReturnErr
          ELSE /\ pc' = [pc EXCEPT ![p] = "err"]
               /\ kpend' = PostK(kpend, life, Managed(p), SIGKILL)
               /\ sentTo' = [sentTo EXCEPT ![Managed(p)] = @ \cup {SIGKILL}]
               /\ UNCHANGED <<ret, parentEnd>>

\* Proc::park, entry: a reaped handle returns its code, otherwise
\* Signals::new(..)? registers the handlers and cnt starts at 0
ParkEnter(p) ==
    /\ p \in Parkers
    /\ pc[p] = "park" /\ life[p] = "run"
    /\ \E f \in MayFail({"Signals::new"}) \cup {"none"} :
        IF proc[p].done
        THEN /\ pc' = [pc EXCEPT ![p] = "parked_done"]
             /\ UNCHANGED <<installed, cnt, ret, parentEnd, kpend, sentTo, envFail>>
        ELSE IF f = "none"
        THEN /\ installed' = [installed EXCEPT ![p] = TRUE]
             /\ cnt' = [cnt EXCEPT ![p] = 0]
             /\ pc' = [pc EXCEPT ![p] = "trywait"]
             /\ UNCHANGED <<ret, parentEnd, kpend, sentTo, envFail>>
        ELSE /\ ParkReturnErr(p)
             /\ UNCHANGED <<installed, cnt>>
    /\ UNCHANGED <<otherVars, entry, scenario, faults, released, life, wstatus, cred, caps, childEnd,
                   toParent, toChild, msg, log, res, proc, hpend, fwd,
                   ext, mainExit, dropped, born>>

\* Proc::park, loop head: trywaitpid(self.pid).  Err: park returns it.  Done:
\* the handle records the code and park returns it; the parent returns
\* Ok(code) from runc, the child calls exit(code).  Busy: go on to isig.next()
ParkTryWait(p) ==
    /\ p \in Parkers
    /\ pc[p] = "trywait" /\ life[p] = "run"
    /\ \E f \in MayFail({"waitpid"}) \cup {"none"} :
       LET m == Managed(p)
           sts == WEXITSTATUS(wstatus[m])
       IN IF f # "none"
          THEN /\ ParkReturnErr(p)
               /\ UNCHANGED <<proc, life, wstatus, childEnd, hpend>>
          ELSE IF life[m] = "zombie"
          THEN /\ proc' = [proc EXCEPT ![p] = [done |-> TRUE, code |-> sts]]
               /\ IF p = "P"
                     THEN /\ life' = [life EXCEPT ![m] = "reaped"]
                          /\ ret' = [kind |-> "ok", code |-> sts]
                          /\ pc' = [pc EXCEPT ![p] = "returned"]
                          /\ parentEnd' = parentEnd \ {"P"}
                          /\ UNCHANGED <<wstatus, childEnd, kpend, hpend>>
                     ELSE /\ Terminate(p, StatusExit(sts), [life EXCEPT ![m] = "reaped"],
                                       kpend, hpend)
                          /\ pc' = [pc EXCEPT ![p] = "dead"]
                          /\ UNCHANGED ret
               /\ UNCHANGED <<sentTo, envFail>>
          ELSE /\ pc' = [pc EXCEPT ![p] = "next"]
               /\ UNCHANGED <<proc, life, ret, parentEnd, wstatus, childEnd, kpend,
                              hpend, sentTo, envFail>>
    /\ UNCHANGED <<otherVars, entry, scenario, faults, released, cred, caps, toParent, toChild, msg, log, res,
                   cnt, installed, fwd, ext, mainExit, dropped, born>>

\* faulty variant of the escalation: three gentle forwards, as the older
\* park of lib.rs (cnt<3)
ForwardNum_ThreeTries(c, sig) == IF c < 3 THEN sig ELSE SIGKILL

\* faulty variant of the escalation: the received signal is always forwarded
ForwardNum_NoEscalation(c, sig) == sig

\* the signal number Proc::park forwards for received signal sig
ForwardNum(c, sig) == IF c < 2 THEN sig ELSE SIGKILL

\* Proc::park, isig.next(): SIGCHLD loops around; any other signal is
\* forwarded with self.signal(num), num = if cnt < 2 { sig } else { SIGKILL }
ParkNext(p) ==
    /\ p \in Parkers
    /\ pc[p] = "next" /\ life[p] = "run"
    /\ \E sig \in hpend[p] :
        IF sig = SIGCHLD
        THEN /\ hpend' = [hpend EXCEPT ![p] = @ \ {sig}]
             /\ UNCHANGED <<cnt, kpend, sentTo, fwd>>
        ELSE LET num == ForwardNum(cnt[p], sig)
                 m == Managed(p)
             IN /\ cnt' = [cnt EXCEPT ![p] = @ + 1]
                /\ kpend' = PostK(kpend, life, m, num)
                /\ hpend' = PostH([hpend EXCEPT ![p] = @ \ {sig}], life, m, num)
                /\ sentTo' = [sentTo EXCEPT ![m] = @ \cup {num}]
                /\ fwd' = [fwd EXCEPT ![p] = Append(@, <<sig, num>>)]
    /\ pc' = [pc EXCEPT ![p] = "trywait"]
    /\ UNCHANGED <<otherVars, entry, scenario, faults, released, life, wstatus, cred, caps, parentEnd, childEnd,
                   toParent, toChild, msg, log, res, proc, installed, ext, ret,
                   mainExit, envFail, dropped, born>>

(* ------------------------------ kernel -------------------------------- *)
\* the kernel delivers pending signal sig to process p: SIGKILL terminates;
\* a signal whose handler was registered meanwhile is recorded; without
\* handler SIGCHLD is discarded and a terminating signal terminates.  The
\* inner command (and the grandchild as init of its pid namespace) may
\* also survive a terminating signal.
KernelDeliver(p) ==
    /\ p \in Procs /\ life[p] = "run"
    /\ \E sig \in kpend[p] :
        \/ /\ sig # SIGKILL
           /\ Handles(p, sig)
           /\ hpend' = [hpend EXCEPT ![p] = @ \cup {sig}]
           /\ kpend' = [kpend EXCEPT ![p] = @ \ {sig}]
           /\ UNCHANGED <<life, wstatus, parentEnd, childEnd, pc>>
        \/ /\ sig # SIGKILL
           /\ \/ sig = SIGCHLD /\ ~Handles(p, sig)
              \/ p = "G"
           /\ kpend' = [kpend EXCEPT ![p] = @ \ {sig}]
           /\ UNCHANGED <<life, wstatus, parentEnd, childEnd, pc, hpend>>
        \/ /\ \/ sig = SIGKILL
              \/ sig # SIGCHLD /\ ~Handles(p, sig)
           /\ Terminate(p, StatusSignaled(sig), life, kpend, hpend)
           /\ pc' = [pc EXCEPT ![p] = "dead"]
    /\ UNCHANGED <<otherVars, entry, scenario, faults, released, cred, caps, toParent, toChild, msg, log, res,
                   proc, cnt, installed, fwd, sentTo, ext, ret, mainExit, envFail,
                   dropped, born>>

\* a user sends a terminating signal to the orchestrator parked on the
\* child (its handlers are registered: the handler records the signal)
ExternalSignal ==
    /\ Parked("P")
    /\ ext < MaxExt
    /\ \E sig \in ExtSignals : hpend' = [hpend EXCEPT !["P"] = @ \cup {sig}]
    /\ ext' = ext + 1
    /\ UNCHANGED <<otherVars, entry, scenario, faults, released, pc, life, wstatus, cred, caps, parentEnd,
                   childEnd, toParent, toChild, msg, log, res, proc, cnt, installed,
                   kpend, fwd, sentTo, ret, mainExit, envFail, dropped, born>>

\* a terminating signal is sent from outside to the parent before Proc::park
\* has registered its handlers: the default action terminates the parent,
\* its descriptors close, and no destructor runs
ExternalKill ==
    /\ life["P"] = "run" /\ ~installed["P"]
    /\ pc["P"] \in {"p_read", "p_idmap", "p_release", "p_drop", "park"}
    /\ ext < MaxExt
    /\ \E sig \in ExtSignals : Terminate("P", StatusSignaled(sig), life, kpend, hpend)
    /\ pc' = [pc EXCEPT !["P"] = "dead"]
    /\ ext' = ext + 1
    /\ UNCHANGED <<otherVars, entry, scenario, faults, released, cred, caps, toParent, toChild, msg,
                   log, res, proc, cnt, installed, fwd, sentTo, ret, mainExit, envFail,
                   dropped, born>>

(* --------------------------- bin/*.rs: main --------------------------- *)
\* exit code of the entry point once runc has returned r:
\* nonet and hidehome: runc(..)?; Ok(())   isolate: process::exit(ret?)
\* (main returning Err exits with code 1)
MainExitCode(e, r) ==
    IF r.kind = "err" THEN 1
    ELSE IF e = "isolate" THEN r.code % 256
    ELSE 0

MainExit ==
    /\ pc["P"] = "returned"
    /\ mainExit' = MainExitCode(entry, ret)
    /\ pc' = [pc EXCEPT !["P"] = "exited"]
    /\ life' = [life EXCEPT !["P"] = "zombie"]
    /\ wstatus' = [wstatus EXCEPT !["P"] = StatusExit(mainExit')]
    /\ parentEnd' = parentEnd \ {"P"}
    /\ UNCHANGED <<otherVars, entry, scenario, faults, released, cred, caps, childEnd, toParent, toChild, msg,
                   log, res, proc, cnt, installed, hpend, kpend, fwd, sentTo, ext,
                   ret, envFail, dropped, born>>

(* --------------------------- specification ---------------------------- *)
\* the lifecycle of every entry point in every start scenario; hooks and
\* system calls may fail; no signal is sent from outside
Init == InitRest /\ \E e \in Entries, sc \in Scenarios : InitOf(e, sc, {"hooks", "syscalls"})

Next ==
    \/ RuncAtStart
    \/ RuncFork
    \/ HandleParentRead
    \/ HandleParentSetIdMap
    \/ HandleParentRelease
    \/ HandleParentDrop
    \/ HandleChildUnshare
    \/ HandleChildSendX
    \/ HandleChildHello
    \/ HandleChildRead
    \/ HandleChildFork
    \/ HandleChildDrop
    \/ HandleGrandchildActivate
    \/ HandleGrandchildSetupPriv
    \/ HandleGrandchildClear
    \/ HandleGrandchildSetup
    \/ CommandExit
    \/ \E p \in {"C", "G"} : ForkedExit(p)
    \/ \E p \in Parkers : ParkEnter(p)
    \/ \E p \in Parkers : ParkTryWait(p)
    \/ \E p \in Parkers : ParkNext(p)
    \/ \E p \in Procs : KernelDeliver(p)
    \/ MainExit

Spec == Init /\ [][Next]_vars

\* the lifecycle with terminating signals sent from outside to the parked
\* orchestrator, in an environment where hooks and system calls succeed and
\* the setup hook executes the inner command (the steps of an error return,
\* HandleChildSendX and ForkedExit, are never enabled there)
InitSig == InitRest /\ InitOf("isolate", "suid", {})

NextSig ==
    \/ RuncAtStart
    \/ RuncFork
    \/ HandleParentRead
    \/ HandleParentSetIdMap
    \/ HandleParentRelease
    \/ HandleParentDrop
    \/ HandleChildUnshare
    \/ HandleChildHello
    \/ HandleChildRead
    \/ HandleChildFork
    \/ HandleChildDrop
    \/ HandleGrandchildActivate
    \/ HandleGrandchildSetupPriv
    \/ HandleGrandchildClear
    \/ HandleGrandchildSetup
    \/ CommandExit
    \/ \E p \in Parkers : ParkEnter(p)
    \/ \E p \in Parkers : ParkTryWait(p)
    \/ \E p \in Parkers : ParkNext(p)
    \/ \E p \in Procs : KernelDeliver(p)
    \/ ExternalSignal
    \/ MainExit

SpecSig == InitSig /\ [][NextSig]_vars

\* scheduling: every process that can take a step of its own eventually
\* takes one, and the kernel eventually delivers a pending signal; the inner
\* command need not ever exit and nobody need send a signal
ProcStep(p) ==
    IF p = "P"
    THEN \/ RuncAtStart \/ RuncFork \/ HandleParentRead \/ HandleParentSetIdMap
         \/ HandleParentRelease \/ HandleParentDrop \/ MainExit
         \/ ParkEnter(p) \/ ParkTryWait(p) \/ ParkNext(p)
    ELSE IF p = "C"
    THEN \/ HandleChildUnshare \/ HandleChildSendX \/ HandleChildHello
         \/ HandleChildRead \/ HandleChildFork \/ HandleChildDrop
         \/ ForkedExit(p) \/ ParkEnter(p) \/ ParkTryWait(p) \/ ParkNext(p)
    ELSE \/ HandleGrandchildActivate \/ HandleGrandchildSetupPriv
         \/ HandleGrandchildClear \/ HandleGrandchildSetup \/ ForkedExit(p)

Fairness ==
    /\ \A p \in Procs : WF_vars(ProcStep(p))
    /\ \A p \in Procs : WF_vars(KernelDeliver(p))

\* scheduling of a park: park keeps being scheduled and the kernel delivers
\* the signals pending for its managed process
ParkStep(p) == ParkEnter(p) \/ ParkTryWait(p) \/ ParkNext(p)

ParkFairness ==
    \A p \in Parkers : WF_vars(ParkStep(p)) /\ WF_vars(KernelDeliver(Managed(p)))

\* the lifecycle where hooks may fail and system calls succeed, fairly scheduled
InitHookFaults == InitRest /\ \E e \in Entries, sc \in Scenarios : InitOf(e, sc, {"hooks"})

FairSpec == InitHookFaults /\ [][Next]_vars /\ Fairness

\* the lifecycle with outside signals, its parks fairly scheduled
FairSig == InitSig /\ [][NextSig]_vars /\ ParkFairness

\* the lifecycle of isolate where hooks may fail and terminating signals are
\* sent from outside to the parked orchestrator
InitSigHooks == InitRest /\ InitOf("isolate", "suid", {"hooks"})

SpecSigHooks == InitSigHooks /\ [][Next \/ ExternalSignal]_vars

\* the lifecycle of isolate, fairly scheduled, where hooks may fail and the
\* parent may be terminated from outside before it parks
FairKill == InitSigHooks /\ [][Next \/ ExternalKill]_vars /\ Fairness

(* ------------------- proc.rs: a client of the Proc API ------------------ *)
\* the signals a client passes to Proc::signal (Proc::kill passes SIGKILL)
ApiSignals == {SIGTERM, SIGKILL}

Ev(name, arg) == <<name, arg>>

\* faulty variant of Proc::signal: the done flag is not consulted
SignalSends_Always(h) == TRUE

\* Proc::signal: kill(pid, sig) is issued unless the handle is done
SignalSends(h) == ~h.done

\* the managed process after kill(pid, sig): pending unless already terminated
AfterKill(m, sig) == IF m.life = "run" THEN [m EXCEPT !.pend = @ \cup {sig}] ELSE m

\* the managed process terminates with wait status st; a client inside park
\* has SIGCHLD recorded by the registered handler
ManagedTerminate(st) ==
    /\ mproc' = [life |-> "zombie", status |-> st, pend |-> {}]
    /\ psig' = IF ppc # "idle" THEN psig \cup {SIGCHLD} ELSE psig

\* the managed process exits by itself with code c
ManagedExit ==
    /\ mproc.life = "run"
    /\ \E c \in ExitCodes : ManagedTerminate(StatusExit(c))
    /\ UNCHANGED <<exceptProc, hnd, held, ppc, pcnt, hist>>

\* the kernel delivers a pending signal to the managed process: SIGKILL
\* terminates it, another signal terminates it or is handled by it
ManagedDeliver ==
    /\ mproc.life = "run"
    /\ \E sig \in mproc.pend :
        \/ ManagedTerminate(StatusSignaled(sig))
        \/ /\ sig # SIGKILL
           /\ mproc' = [mproc EXCEPT !.pend = @ \ {sig}]
           /\ UNCHANGED psig
    /\ UNCHANGED <<exceptProc, hnd, held, ppc, pcnt, hist>>

\* faulty variant of the entry of park: the done flag is not consulted
Proc_park_enter_NoDoneCheck ==
    /\ held /\ ppc = "idle" /\ Len(hist) < MaxHist
    /\ hist' = hist \o <<Ev("park", 0), Ev("install", 0)>>
    /\ psig' = {}
    /\ pcnt' = 0
    /\ ppc' = "trywait"
    /\ UNCHANGED <<exceptProc, hnd, held, mproc>>

\* Proc::park, entry: if self.done { return Ok(self.code) }; otherwise
\* Signals::new(..)? registers the handlers and cnt = 0
Proc_park_enter ==
    /\ held /\ ppc = "idle" /\ Len(hist) < MaxHist
    /\ IF hnd.done
          THEN /\ hist' = hist \o <<Ev("park", 0), Ev("ret", hnd.code)>>
               /\ UNCHANGED <<psig, pcnt, ppc>>
          ELSE \/ /\ hist' = hist \o <<Ev("park", 0), Ev("install", 0)>>
                  /\ psig' = {}
                  /\ pcnt' = 0
                  /\ ppc' = "trywait"
               \/ /\ hist' = hist \o <<Ev("park", 0), Ev("reterr", 0)>>
                  /\ UNCHANGED <<psig, pcnt, ppc>>
    /\ UNCHANGED <<exceptProc, hnd, held, mproc>>

\* faulty variant of the loop head: Busy is taken for Done with code 0
Proc_park_trywait_BusyIsDone ==
    /\ held /\ ppc = "trywait"
    /\ \/ /\ hist' = hist \o <<Ev("waitpid", 0), Ev("reterr", 0)>>
          /\ UNCHANGED <<hnd, mproc>>
       \/ /\ mproc.life = "zombie"
          /\ hnd' = [done |-> TRUE, code |-> WEXITSTATUS(mproc.status)]
          /\ mproc' = [mproc EXCEPT !.life = "reaped"]
          /\ hist' = hist \o <<Ev("waitpid", 0), Ev("ret", hnd'.code)>>
       \/ /\ mproc.life = "run"
          /\ hnd' = [done |-> TRUE, code |-> 0]
          /\ hist' = hist \o <<Ev("waitpid", 0), Ev("ret", 0)>>
          /\ UNCHANGED mproc
    /\ ppc' = "idle"
    /\ UNCHANGED <<exceptProc, held, psig, pcnt>>

\* Proc::park, loop head: trywaitpid(self.pid): Err is returned; Done sets
\* done and code and returns the code; Busy goes on to isig.next()
Proc_park_trywait ==
    /\ held /\ ppc = "trywait"
    /\ \/ /\ hist' = hist \o <<Ev("waitpid", 0), Ev("reterr", 0)>>
          /\ ppc' = "idle"
          /\ UNCHANGED <<hnd, mproc>>
       \/ /\ mproc.life = "zombie"
          /\ hnd' = [done |-> TRUE, code |-> WEXITSTATUS(mproc.status)]
          /\ mproc' = [mproc EXCEPT !.life = "reaped"]
          /\ hist' = hist \o <<Ev("waitpid", 0), Ev("ret", hnd'.code)>>
          /\ ppc' = "idle"
       \/ /\ mproc.life = "run"
          /\ hist' = Append(hist, Ev("waitpid", 0))
          /\ ppc' = "next"
          /\ UNCHANGED <<hnd, mproc>>
    /\ UNCHANGED <<exceptProc, held, psig, pcnt>>

\* Proc::park, isig.next(): SIGCHLD loops around; another signal is forwarded
\* with self.signal(num)
Proc_park_next ==
    /\ held /\ ppc = "next"
    /\ \E sig \in psig :
        /\ psig' = psig \ {sig}
        /\ IF sig = SIGCHLD
              THEN UNCHANGED <<pcnt, mproc, hist>>
              ELSE LET num == ForwardNum(pcnt, sig)
                   IN /\ pcnt' = pcnt + 1
                      /\ IF SignalSends(hnd)
                            THEN /\ mproc' = AfterKill(mproc, num)
                                 /\ hist' = Append(hist, Ev("kill", num))
                            ELSE UNCHANGED <<mproc, hist>>
    /\ ppc' = "trywait"
    /\ UNCHANGED <<exceptProc, hnd, held>>

\* a terminating signal arrives at the client blocked in park
ClientInterrupted ==
    /\ ppc # "idle" /\ Len(hist) < MaxHist
    /\ \E sig \in ExtSignals : sig \notin psig /\ psig' = psig \cup {sig}
    /\ UNCHANGED <<exceptProc, hnd, held, mproc, ppc, pcnt, hist>>

\* the client calls Proc::signal(sig), or Proc::kill() for SIGKILL
Proc_signal ==
    /\ held /\ ppc = "idle" /\ Len(hist) < MaxHist
    /\ \E sig \in ApiSignals :
        IF SignalSends(hnd)
        THEN /\ mproc' = AfterKill(mproc, sig)
             /\ hist' = hist \o <<Ev("signal", sig), Ev("kill", sig)>>
        ELSE /\ hist' = Append(hist, Ev("signal", sig))
             /\ UNCHANGED mproc
    /\ UNCHANGED <<exceptProc, hnd, held, ppc, psig, pcnt>>

\* Drop for Proc: self.kill()
Proc_drop ==
    /\ held /\ ppc = "idle"
    /\ held' = FALSE
    /\ IF SignalSends(hnd)
          THEN /\ mproc' = AfterKill(mproc, SIGKILL)
               /\ hist' = hist \o <<Ev("drop", 0), Ev("kill", SIGKILL)>>
          ELSE /\ hist' = Append(hist, Ev("drop", 0))
               /\ UNCHANGED mproc
    /\ UNCHANGED <<exceptProc, hnd, ppc, psig, pcnt>>

NextProc ==
    \/ ManagedExit
    \/ ManagedDeliver
    \/ Proc_park_enter
    \/ Proc_park_trywait
    \/ Proc_park_next
    \/ ClientInterrupted
    \/ Proc_signal
    \/ Proc_drop

\* a client using one Proc handle in any order the borrow rules allow
SpecProc == InitSig /\ [][NextProc]_vars

(* ----------------------- lib.rs: park(pid) ---------------------------- *)
\* park, entry: Signals::new(..)? registers the handlers, cnt = 0, and the
\* loop over signals.forever() waits for the first signal
Lib_park_enter ==
    /\ ppc = "idle" /\ hist = <<>>
    /\ \/ /\ hist' = <<Ev("park", 0), Ev("install", 0)>>
          /\ psig' = {}
          /\ pcnt' = 0
          /\ ppc' = "next"
       \/ /\ hist' = <<Ev("park", 0), Ev("reterr", 0)>>
          /\ ppc' = "done"
          /\ UNCHANGED <<psig, pcnt>>
    /\ UNCHANGED <<exceptProc, hnd, held, mproc>>

\* park, one signal from signals.forever(): SIGCHLD calls trywaitpid (Err
\* and Done return, Nope goes on waiting); another signal is forwarded
\* with kill(pid, num), num being SIGKILL from the fourth signal on
Lib_park_next ==
    /\ ppc = "next"
    /\ \E sig \in psig :
        /\ psig' = psig \ {sig}
        /\ IF sig = SIGCHLD
              THEN \/ /\ hist' = hist \o <<Ev("waitpid", 0), Ev("reterr", 0)>>
                      /\ ppc' = "done"
                      /\ UNCHANGED <<pcnt, mproc>>
                   \/ /\ mproc.life = "zombie"
                      /\ mproc' = [mproc EXCEPT !.life = "reaped"]
                      /\ hist' = hist \o <<Ev("waitpid", 0), Ev("ret", WEXITSTATUS(mproc.status))>>
                      /\ ppc' = "done"
                      /\ UNCHANGED pcnt
                   \/ /\ mproc.life = "run"
                      /\ hist' = Append(hist, Ev("waitpid", 0))
                      /\ UNCHANGED <<ppc, pcnt, mproc>>
              ELSE /\ pcnt' = pcnt + 1
                   /\ mproc' = AfterKill(mproc, IF pcnt < 3 THEN sig ELSE SIGKILL)
                   /\ hist' = Append(hist, Ev("kill", IF pcnt < 3 THEN sig ELSE SIGKILL))
                   /\ UNCHANGED ppc
    /\ UNCHANGED <<exceptProc, hnd, held>>

NextLib ==
    \/ ManagedExit
    \/ ManagedDeliver
    \/ ClientInterrupted
    \/ Lib_park_enter
    \/ Lib_park_next

\* a caller of the crate-root park that keeps running: park is called, and
\* a signal recorded for the iterator is eventually returned by it
FairLib ==
    InitSig /\ [][NextLib]_vars /\ WF_vars(Lib_park_enter) /\ WF_vars(Lib_park_next)

(* ----------------------- container.rs: IdMap -------------------------- *)
\* values the caller passes to add: starts in the parent namespace, starts
\* in the child namespace, lengths
OuterStarts == {0, 15, 100}
InnerStarts == {1, 16}
Counts == {1, 2}
\* the pid the caller passes to new_uid / new_gid
Pids == {42}
\* capability numbers an effective set is drawn from: CAP_DAC_OVERRIDE (1),
\* CAP_SETGID and CAP_SETUID
CapNumbers == {1, CAP_SETGID, CAP_SETUID}
\* exit codes of the helper program
HelperCodes == {0, 1}

\* a String is a sequence of one-character strings
Digit(d) == <<"0", "1", "2", "3", "4", "5", "6", "7", "8", "9">>[d + 1]

\* format!("{}", n) of an unsigned integer
RECURSIVE Dec(_)
Dec(n) == IF n < 10 THEN <<Digit(n)>> ELSE Append(Dec(n \div 10), Digit(n % 10))

DigitValue(ch) == CHOOSE d \in 0..9 : Digit(d) = ch

IsNumber(s) == s # <<>> /\ \A i \in 1..Len(s) : \E d \in 0..9 : Digit(d) = s[i]

\* the unsigned integer a decimal string denotes
RECURSIVE ParseDec(_)
ParseDec(s) ==
    IF s = <<>> THEN 0
    ELSE 10 * ParseDec(SubSeq(s, 1, Len(s) - 1)) + DigitValue(s[Len(s)])

RECURSIVE Concat(_)
Concat(ss) == IF ss = <<>> THEN <<>> ELSE Head(ss) \o Concat(Tail(ss))

RECURSIVE Ascending(_)
Ascending(S) ==
    IF S = {} THEN <<>>
    ELSE LET lo == CHOOSE x \in S : \A y \in S : x <= y
         IN  <<lo>> \o Ascending(S \ {lo})

RECURSIVE Descending(_)
Descending(S) ==
    IF S = {} THEN <<>>
    ELSE LET hi == CHOOSE x \in S : \A y \in S : x >= y
         IN  <<hi>> \o Descending(S \ {hi})

\* BTreeMap::insert: the value of an existing key is replaced
BTreeMap_insert(m, k, v) == [x \in DOMAIN m \cup {k} |-> IF x = k THEN v ELSE m[x]]

\* faulty variant of BTreeMap::iter: keys in descending order
BTreeMap_iter_Descending(m) == Descending(DOMAIN m)

\* BTreeMap::iter: the keys in ascending order
BTreeMap_iter(m) == Ascending(DOMAIN m)

\* IdMap::add
IdMap_add_value(im, start, end, count) ==
    [im EXCEPT !.map = BTreeMap_insert(im.map, start, <<end, count>>)]

\* IdMap::map_args: start, end, count of every entry, each formatted
map_args(im) ==
    LET ks == BTreeMap_iter(im.map)
    IN  Concat([i \in 1..Len(ks) |->
                   <<Dec(ks[i]), Dec(im.map[ks[i]][1]), Dec(im.map[ks[i]][2])>>])

\* IdMap::map_file: format!("{} {} {}\n", start, end, count) of every entry
map_file(im) ==
    LET ks == BTreeMap_iter(im.map)
    IN  Concat([i \in 1..Len(ks) |->
                   Dec(ks[i]) \o <<" ">> \o Dec(im.map[ks[i]][1]) \o <<" ">>
                       \o Dec(im.map[ks[i]][2]) \o <<"\n">>])

\* a & b on unsigned integers
RECURSIVE BitAnd(_, _)
BitAnd(a, b) ==
    IF a = 0 \/ b = 0 THEN 0
    ELSE (a % 2) * (b % 2) + 2 * BitAnd(a \div 2, b \div 2)

\* the 32-bit word holding one bit per capability number of S
RECURSIVE MaskOf(_)
MaskOf(S) ==
    IF S = {} THEN 0
    ELSE LET c == CHOOSE x \in S : TRUE IN 2 ^ c + MaskOf(S \ {c})

\* self.effective[word] of a Cap whose effective set is e
EffectiveWord(e, word) == MaskOf({c - 32 * word : c \in {x \in e : x \div 32 = word}})

\* Cap::effective: the word is masked with the bit number itself
Cap_effective(e, cap) ==
    LET word == cap \div 32
        bit == cap % 32
    IN  0 # BitAnd(EffectiveWord(e, word), bit)

\* how the helper process ended: not spawned, exit(code), or killed by a signal
HelperOutcomes ==
    {[kind |-> "spawnfail", code |-> -1], [kind |-> "signal", code |-> -1]}
        \cup {[kind |-> "exit", code |-> c] : c \in HelperCodes}

\* Command::status()?.code().ok_or(err::Error::UIDMap)?
HelperResult(h) ==
    IF h.kind = "spawnfail" THEN "io"
    ELSE IF h.kind = "exit" THEN "ok"
    ELSE "UIDMap"

\* IdMap::new_uid / IdMap::new_gid
IdMap_new ==
    /\ ipc = "none"
    /\ \E pid \in Pids, isuid \in BOOLEAN :
           idm' = [pid |-> pid, isuid |-> isuid, map |-> <<>>]
    /\ ipc' = "open"
    /\ UNCHANGED <<exceptIdMap, adds, eff, wr>>

IdMap_add ==
    /\ ipc = "open" /\ Len(adds) < MaxAdds
    /\ \E start \in OuterStarts, end \in InnerStarts, count \in Counts :
        /\ idm' = IdMap_add_value(idm, start, end, count)
        /\ adds' = Append(adds, <<start, end, count>>)
    /\ UNCHANGED <<exceptIdMap, ipc, eff, wr>>

\* IdMap::write, Cap::current() failing
IdMap_write_nocaps ==
    /\ ipc = "open"
    /\ wr' = [NoWrite EXCEPT !.result = "io"]
    /\ ipc' = "done"
    /\ UNCHANGED <<exceptIdMap, idm, adds, eff>>

\* IdMap::write, the branches writing /proc/<pid>/uid_map or gid_map
IdMap_write_direct ==
    /\ ipc = "open"
    /\ \E e \in SUBSET CapNumbers, r \in {"ok", "io"} :
        /\ \/ idm.isuid /\ Cap_effective(e, CAP_SETUID)
           \/ ~idm.isuid /\ ~(idm.isuid /\ Cap_effective(e, CAP_SETUID))
                  /\ Cap_effective(e, CAP_SETGID)
        /\ eff' = e
        /\ wr' = [path |-> "file",
                  target |-> IF idm.isuid THEN "uid_map" ELSE "gid_map",
                  data |-> map_file(idm), argv |-> <<>>,
                  helper |-> NoHelper, result |-> r]
    /\ ipc' = "done"
    /\ UNCHANGED <<exceptIdMap, idm, adds>>

\* IdMap::write, the branch running newuidmap or newgidmap
IdMap_write_helper ==
    /\ ipc = "open"
    /\ \E e \in SUBSET CapNumbers, h \in HelperOutcomes :
        /\ ~(idm.isuid /\ Cap_effective(e, CAP_SETUID))
        /\ ~(~idm.isuid /\ Cap_effective(e, CAP_SETGID))
        /\ eff' = e
        /\ wr' = [path |-> "helper",
                  target |-> IF idm.isuid THEN "newuidmap" ELSE "newgidmap",
                  data |-> <<>>, argv |-> <<Dec(idm.pid)>> \o map_args(idm),
                  helper |-> h, result |-> HelperResult(h)]
    /\ ipc' = "done"
    /\ UNCHANGED <<exceptIdMap, idm, adds>>

NextIdMap ==
    \/ IdMap_new
    \/ IdMap_add
    \/ IdMap_write_nocaps
    \/ IdMap_write_direct
    \/ IdMap_write_helper

\* a caller constructing one IdMap, adding entries and applying it
SpecIdMap == InitSig /\ [][NextIdMap]_vars

(* --------------------- bin/isolate.rs: mount plan --------------------- *)
\* arguments a user gives to -W, -O, -T and -C: existing directories by
\* absolute name, the current directory, and a name that does not exist
DirArgs == {"/a", "/b", "/tmp/t", ".", "/x"}

\* Path::starts_with, the test made by Path::strip_prefix
Path_starts_with(p, base) == Len(base) <= Len(p) /\ SubSeq(p, 1, Len(base)) = base

\* Path::strip_prefix where it succeeds: the names after base
Path_strip_prefix(p, base) == SubSeq(p, Len(base) + 1, Len(p))

\* Path::is_dir
is_dir(arg) == arg # "/x"

\* Path::canonicalize of an existing directory; a relative name is resolved
\* against the directory the process runs in
canonicalize(arg) == IF arg = "." THEN InitialCwd ELSE arg

\* the MountType selected by an option
MountTypeOf(opt) ==
    IF opt = "-O" THEN "ReadOnly" ELSE IF opt = "-W" THEN "Writable" ELSE "Tmp"

\* the loop removing duplicates: an item whose path was seen removes the
\* earlier items of that path from munique, then the item is pushed
RECURSIVE DedupFrom(_, _, _)
DedupFrom(rest, mseen, munique) ==
    IF rest = <<>> THEN munique
    ELSE LET dir == Head(rest)[2]
             kept == IF dir \in mseen
                     THEN SelectSeq(munique, LAMBDA it : it[2] # dir)
                     ELSE munique
         IN  DedupFrom(Tail(rest), mseen \cup {dir}, Append(kept, Head(rest)))

\* faulty variant of the removal of duplicates: the first occurrence is kept
Dedup_KeepFirst(m) ==
    LET ks == Ascending({i \in 1..Len(m) : \A j \in 1..(i - 1) : m[j][2] # m[i][2]})
    IN  [n \in 1..Len(ks) |-> m[ks[n]]]

Dedup(m) == DedupFrom(m, {}, <<>>)

\* faulty variant: the first entry is left as it was pushed before the options
PlanBeforeDedup_Stale(m, c) == m

\* mounts[0] = (MountType::Writable, cwd.clone())
PlanBeforeDedup(m, c) == [m EXCEPT ![1] = <<"Writable", c>>]

CanParse == mainpc = "parse" /\ nopts < MaxOpts

\* -n, -N, --net
Opt_net ==
    /\ CanParse
    /\ allownet' = TRUE
    /\ nopts' = nopts + 1
    /\ used' = used \cup {"N"}
    /\ UNCHANGED <<exceptPlan, stdir, lastC, cwd, mounts, mainpc, plan0, mi, mlog>>

\* -c, --no-pwd
Opt_nopwd ==
    /\ CanParse
    /\ mounts' = Append(mounts, <<"ReadOnly", cwd>>)
    /\ nopts' = nopts + 1
    /\ used' = used \cup {"c"}
    /\ UNCHANGED <<exceptPlan, stdir, lastC, cwd, allownet, mainpc, plan0, mi, mlog>>

\* -W, -O, -T with a directory argument
Opt_mount ==
    /\ CanParse
    /\ \E opt \in {"-W", "-O", "-T"}, dir \in DirArgs :
           mounts' = IF is_dir(dir)
                     THEN Append(mounts, <<MountTypeOf(opt), canonicalize(dir)>>)
                     ELSE mounts
    /\ nopts' = nopts + 1
    /\ used' = used \cup {"m"}
    /\ UNCHANGED <<exceptPlan, stdir, lastC, cwd, allownet, mainpc, plan0, mi, mlog>>

\* -C, --chdir: canonicalize()? of a missing directory returns the error from main
Opt_chdir ==
    /\ CanParse
    /\ \E dir \in DirArgs :
           IF is_dir(dir)
           THEN cwd' = canonicalize(dir) /\ lastC' = canonicalize(dir) /\ UNCHANGED mainpc
           ELSE mainpc' = "err" /\ UNCHANGED <<cwd, lastC>>
    /\ nopts' = nopts + 1
    /\ used' = used \cup {"C"}
    /\ UNCHANGED <<exceptPlan, stdir, allownet, mounts, plan0, mi, mlog>>

\* -h, --help: usage, return Ok(())
Opt_help ==
    /\ CanParse
    /\ mainpc' = "exit0"
    /\ nopts' = nopts + 1
    /\ used' = used \cup {"h"}
    /\ UNCHANGED <<exceptPlan, stdir, lastC, cwd, allownet, mounts, plan0, mi, mlog>>

\* any other argument starting with "-": usage, process::exit(1)
Opt_unknown ==
    /\ CanParse
    /\ mainpc' = "exit1"
    /\ nopts' = nopts + 1
    /\ used' = used \cup {"?"}
    /\ UNCHANGED <<exceptPlan, stdir, lastC, cwd, allownet, mounts, plan0, mi, mlog>>

\* the option loop ends: the first entry is overwritten and the
\* duplicates are removed
PlanFinish ==
    /\ mainpc = "parse"
    /\ plan0' = PlanBeforeDedup(mounts, cwd)
    /\ mounts' = Dedup(PlanBeforeDedup(mounts, cwd))
    /\ mainpc' = "planned"
    /\ UNCHANGED <<exceptPlan, stdir, used, lastC, cwd, allownet, nopts, mi, mlog>>

\* TempDir::new: env::temp_dir() joined with a fresh "sandbox-" name; the
\* directory is /tmp unless TMPDIR names another one
StagingDirs == {<<"tmp", "sandbox-1">>, <<"var", "stage", "sandbox-1">>}

\* from the check of the command to the user binds of setup_priv: no
\* command gives exit(1); a failing step before the binds gives an error
PlanLaunch ==
    /\ mainpc = "planned"
    /\ \/ /\ mainpc' \in {"exit1", "err"}
          /\ UNCHANGED stdir
       \/ /\ mainpc' = "bind"
          /\ stdir' \in StagingDirs
    /\ UNCHANGED <<exceptPlan, used, lastC, cwd, allownet, mounts, nopts, plan0, mi, mlog>>

\* faulty variant of the first loop: a Tmp item is mounted where it stands
BindPassMounts_TmpInline(item) ==
    IF item[1] = "ReadOnly" THEN << <<"bind", item[2]>>, <<"remount_ro", item[2]>> >>
    ELSE IF item[1] = "Writable" THEN << <<"bind", item[2]>> >>
    ELSE << <<"tmpfs", item[2]>> >>

\* the mount calls of the first loop for one item
BindPassMounts(item) ==
    IF item[1] = "ReadOnly" THEN << <<"bind", item[2]>>, <<"remount_ro", item[2]>> >>
    ELSE IF item[1] = "Writable" THEN << <<"bind", item[2]>> >>
    ELSE <<>>

\* the mount calls of the second loop for one item
TmpPassMounts(item) ==
    IF item[1] = "Tmp" THEN << <<"tmpfs", item[2]>> >> ELSE <<>>

\* what the Writable branch finds at the target under the new root:
\* tdir.exists(), else tdir.starts_with("/tmp"), else neither
TargetStates == {"exists", "tmp", "elsewhere"}

\* the names of a canonical directory of the plan after the root
Components(dirname) ==
    CASE dirname = "/a" -> <<"a">>
      [] dirname = "/b" -> <<"b">>
      [] dirname = "/tmp/t" -> <<"tmp", "t">>
      [] OTHER -> <<"x">>

\* path!(&new_root, dir.strip_prefix("/")?) with new_root = <self.tdir>/root
NewTarget(staging, dirname) == staging \o <<"root">> \o Components(dirname)

\* if tdir.exists() {} else if tdir.starts_with("/tmp") {..} else {..}
TargetState(found, staging, dirname) ==
    IF found THEN "exists"
    ELSE IF Path_starts_with(NewTarget(staging, dirname), <<"tmp">>) THEN "tmp"
    ELSE "elsewhere"

\* the Writable branch before its mount: nothing, clonedirs, or log::error!
WritablePrep(item, where) ==
    IF item[1] # "Writable" \/ where = "exists" THEN <<>>
    ELSE IF where = "tmp" THEN << <<"clonedirs", item[2]>> >>
    ELSE << <<"log_error", item[2]>> >>

\* the record of a call that returned an error
Failed(call) ==
    << CASE call[1] = "bind" -> "bind_failed"
         [] call[1] = "remount_ro" -> "remount_ro_failed"
         [] call[1] = "tmpfs" -> "tmpfs_failed"
         [] OTHER -> "clonedirs_failed",
       call[2] >>

\* one iteration of a loop over self.mounts issuing the calls todo: all of
\* them succeed, or the first k succeed and the next one returns the error,
\* which ends setup_priv; a mount on a target that is missing fails
PassStep(todo, nextpc, missing) ==
    \/ /\ ~missing
       /\ mlog' = mlog \o todo
       /\ mi' = IF mi + 1 = Len(mounts) THEN 0 ELSE mi + 1
       /\ mainpc' = IF mi + 1 = Len(mounts) THEN nextpc ELSE mainpc
    \/ \E k \in 0..(Len(todo) - 1) :
        /\ todo[k + 1][1] # "log_error"
        /\ mlog' = Append(mlog \o SubSeq(todo, 1, k), Failed(todo[k + 1]))
        /\ mainpc' = "err"
        /\ UNCHANGED mi

\* first loop: ReadOnly and Writable binds
BindStep ==
    /\ mainpc = "bind"
    /\ LET item == mounts[mi + 1]
       IN  \E found \in BOOLEAN :
            /\ item[1] # "Writable" => found
            /\ LET where == TargetState(found, stdir, item[2])
               IN  PassStep(WritablePrep(item, where) \o BindPassMounts(item), "tmpfs",
                             item[1] = "Writable" /\ where = "elsewhere")
    /\ UNCHANGED <<exceptPlan, stdir, used, lastC, cwd, allownet, mounts, nopts, plan0>>

\* second loop: tmpfs mounts
TmpStep ==
    /\ mainpc = "tmpfs"
    /\ PassStep(TmpPassMounts(mounts[mi + 1]), "mounted", FALSE)
    /\ UNCHANGED <<exceptPlan, stdir, used, lastC, cwd, allownet, mounts, nopts, plan0>>

\* faulty variant of the end of setup_priv: the old root is left mounted
PivotCalls_KeepOldRoot ==
    << <<"mkdir", "root/tmp/oldroot">>, <<"umount_lazy", "/proc">>,
       <<"chdir", "root">>, <<"pivot_root", "tmp/oldroot">>, <<"chdir", "/">>,
       <<"rmdir", "/tmp/oldroot">> >>

\* the end of setup_priv, each call with the path it is given; root stands
\* for the new root under the staging directory, pivot_root's new root is "."
PivotCalls ==
    << <<"mkdir", "root/tmp/oldroot">>, <<"umount_lazy", "/proc">>,
       <<"chdir", "root">>, <<"pivot_root", "tmp/oldroot">>, <<"chdir", "/">>,
       <<"umount_lazy", "/tmp/oldroot">>, <<"rmdir", "/tmp/oldroot">> >>

\* one call of the end of setup_priv: it succeeds, or its error is returned
\* by ? and ends setup_priv; after the last one setup_priv returns Ok(())
PivotStep ==
    /\ mainpc = "mounted"
    /\ LET call == PivotCalls[mi + 1]
       IN  \/ /\ mlog' = Append(mlog, call)
              /\ mi' = IF mi + 1 = Len(PivotCalls) THEN 0 ELSE mi + 1
              /\ mainpc' = IF mi + 1 = Len(PivotCalls) THEN "pivoted" ELSE mainpc
           \/ /\ mlog' = Append(mlog, <<"failed", call[1]>>)
              /\ mainpc' = "err"
              /\ UNCHANGED mi
    /\ UNCHANGED <<exceptPlan, stdir, used, lastC, cwd, allownet, mounts, nopts, plan0>>

NextPlan ==
    \/ Opt_net
    \/ Opt_nopwd
    \/ Opt_mount
    \/ Opt_chdir
    \/ Opt_help
    \/ Opt_unknown
    \/ PlanFinish
    \/ PlanLaunch
    \/ BindStep
    \/ TmpStep
    \/ PivotStep

\* isolate from its command line to the end of setup_priv
SpecPlan == InitSig /\ [][NextPlan]_vars

(* -------------------------- fs.rs: Mounts ---------------------------- *)
\* the tokens line.split_ascii_whitespace() yields for the lines a file may
\* hold: the first h of the six leading fields and, after all six, o
\* optional fields, the separator or not, and the first t of the three
\* fields after it and one extra; the id is a number or not. A token is
\* the sequence of its pieces: the digits of the id, the names of the
\* mount options, and one piece for every other token
SampleLines ==
    {SubSeq(<<id, <<"35">>, <<"98:0">>, <<"/">>, mp, <<"rw", "noatime", "bogus">> >>, 1, h)
         \o (IF h < 6 THEN <<>>
             ELSE SubSeq(<< <<"master:1">>, <<"shared:7">> >>, 1, o) \o sep
                      \o SubSeq(<< <<"ext3">>, <<"/dev/root">>, <<"rw,errors=continue">>, <<"extra">> >>, 1, t)) :
         id \in {<<"3", "6">>, <<"x">>}, mp \in {<<"/">>, <<"/sys">>}, h \in 0..6,
         o \in 0..2, sep \in {<<>>, << <<"-">> >>}, t \in 0..4}

\* the mount flags parse_line knows; "rw" and unknown names set nothing
KnownOpts == {"ro", "noexec", "nosuid", "nodev", "noatime", "nodiratime",
              "relatime", "strictatime"}

\* Mounts::parse, entry: lines = contents.lines().collect(), infos empty
Mounts_parse_call ==
    /\ mpc = "idle"
    /\ mpc' = "lines"
    /\ UNCHANGED <<exceptFs, fmVars, hhVars, lino, liter, partial, infos, mres, spins>>

\* the for loop takes the next line and parse_line splits it
Mounts_parse_next ==
    /\ mpc = "lines" /\ lino < MaxLines
    /\ \E line \in SampleLines : liter' = line
    /\ lino' = lino + 1
    /\ partial' = <<>>
    /\ spins' = 0
    /\ mpc' = "head"
    /\ UNCHANGED <<exceptFs, fmVars, hhVars, infos, mres>>

\* faulty variant of the end of the for loop: an empty map is returned as it is
Mounts_parse_end_NoEmptyCheck ==
    /\ mpc = "lines"
    /\ mres' = "ok"
    /\ mpc' = "done"
    /\ UNCHANGED <<exceptFs, fmVars, hhVars, lino, liter, partial, infos, spins>>

\* the for loop ends: MissingMount if infos.is_empty(), else Ok(Mounts)
Mounts_parse_end ==
    /\ mpc = "lines"
    /\ mres' = IF DOMAIN infos = {} THEN "MissingMount" ELSE "ok"
    /\ mpc' = "done"
    /\ UNCHANGED <<exceptFs, fmVars, hhVars, lino, liter, partial, infos, spins>>

\* parse_line, the six leading fields: a missing field or an id that is
\* not a number is BadStr, which parse maps to a parse error and returns
Mounts_parse_line_head ==
    /\ mpc = "head"
    /\ IF Len(liter) >= 6 /\ IsNumber(liter[1])
          THEN /\ partial' = [id |-> ParseDec(liter[1]), root |-> liter[4],
                          mount_point |-> liter[5], opts |-> liter[6]]
               /\ liter' = SubSeq(liter, 7, Len(liter))
               /\ mpc' = "skip"
               /\ UNCHANGED mres
          ELSE /\ mres' = "ParseError"
               /\ mpc' = "done"
               /\ UNCHANGED <<partial, liter>>
    /\ UNCHANGED <<exceptFs, fmVars, hhVars, lino, infos, spins>>

\* parse_line, one iteration of the loop over the optional fields: the
\* peeked token "-" breaks, another token is consumed, and with no token
\* left the iteration does nothing
Mounts_parse_line_skip ==
    /\ mpc = "skip"
    /\ IF liter # <<>>
          THEN IF Head(liter) = <<"-">>
                  THEN mpc' = "tail" /\ UNCHANGED <<liter, spins>>
                  ELSE liter' = Tail(liter) /\ UNCHANGED <<mpc, spins>>
          ELSE /\ spins' = IF spins < MaxSpin THEN spins + 1 ELSE spins
               /\ UNCHANGED <<mpc, liter>>
    /\ UNCHANGED <<exceptFs, fmVars, hhVars, lino, partial, infos, mres>>

\* parse_line, from the separator to the MountInfo, and infos.insert
Mounts_parse_line_tail ==
    /\ mpc = "tail"
    /\ IF Len(liter) >= 4
          THEN /\ infos' = BTreeMap_insert(infos, partial.mount_point,
                               [id |-> partial.id, root |-> partial.root,
                                options |-> {partial.opts[i] : i \in 1..Len(partial.opts)} \cap KnownOpts,
                                fstype |-> liter[2], source |-> liter[3]])
               /\ mpc' = "lines"
               /\ UNCHANGED mres
          ELSE /\ mres' = "ParseError"
               /\ mpc' = "done"
               /\ UNCHANGED infos
    /\ UNCHANGED <<exceptFs, fmVars, hhVars, lino, liter, partial, spins>>

NextFs ==
    \/ Mounts_parse_call
    \/ Mounts_parse_next
    \/ Mounts_parse_end
    \/ Mounts_parse_line_head
    \/ Mounts_parse_line_skip
    \/ Mounts_parse_line_tail

\* Mounts::parse running without being suspended for ever
FairFs == InitSig /\ [][NextFs]_vars /\ WF_vars(NextFs)

(* ---------------------- fs.rs: find_mount_point ---------------------- *)
\* the file system: directories /, /a and /a/b, the file /a/b/f, the
\* symbolic link /l to /a/b and the symbolic link /d to a name that does
\* not exist; a path is the sequence of its names below "/"
Dirs == {<<>>, <<"a">>, <<"a", "b">>}

Files == {<<"a", "b", "f">>}

Links == [x \in {<<"l">>, <<"d">>} |-> IF x = <<"l">> THEN <<"a", "b">> ELSE <<"gone">>]

\* the directory relative paths start from
WorkDir == <<"a">>

\* the arguments: "", "/", "/a", "/a/b", "/a/b/f", "/l", "/l/f", "/a/..",
\* "/d", "/nope", "/a/b/f/x", "b", "b/f", ".."
PathArgs ==
    [abs : {TRUE}, comps : {<<>>, <<"a">>, <<"a", "b">>, <<"a", "b", "f">>, <<"l">>,
                            <<"l", "f">>, <<"a", "..">>, <<"d">>, <<"nope">>,
                            <<"a", "b", "f", "x">>}]
        \cup [abs : {FALSE}, comps : {<<>>, <<"b">>, <<"b", "f">>, <<"..">>}]

\* device numbers and inode numbers stat may report
Devs == {0, 1}

Inos == {1, 2}

\* the inode number of the file
FileIno == 3

\* what stat may report: mounts and bind mounts give any device and inode
\* to a directory; a file shares its inode with no directory
Stats ==
    {st \in [Dirs \cup Files -> [dev : Devs, ino : Inos \cup {FileIno}]] :
        \A x \in Dirs \cup Files : (st[x].ino = FileIno) = (x \in Files)}

\* Path::parent of a canonical path: None, here the path itself, for "/"
Path_parent(p) == IF p = <<>> THEN p ELSE SubSeq(p, 1, Len(p) - 1)

\* realpath, name by name from the directory at: ".." ascends and stays at
\* "/", a link is followed, a name under a file or a missing name is an error
RECURSIVE Resolve(_, _)
Resolve(at, comps) ==
    IF comps = <<>> THEN [ok |-> TRUE, path |-> at]
    ELSE IF at \notin Dirs THEN [ok |-> FALSE, path |-> <<>>]
    ELSE IF Head(comps) = ".." THEN Resolve(Path_parent(at), Tail(comps))
    ELSE LET to == Append(at, Head(comps))
         IN  IF to \in DOMAIN Links
             THEN IF Links[to] \in Dirs \cup Files
                  THEN Resolve(Links[to], Tail(comps))
                  ELSE [ok |-> FALSE, path |-> <<>>]
             ELSE IF to \in Dirs \cup Files
                  THEN Resolve(to, Tail(comps))
                  ELSE [ok |-> FALSE, path |-> <<>>]

\* Path::canonicalize: the empty path is an error
Path_canonicalize(arg) ==
    IF arg.comps = <<>> /\ ~arg.abs THEN [ok |-> FALSE, path |-> <<>>]
    ELSE Resolve(IF arg.abs THEN <<>> ELSE WorkDir, arg.comps)

\* find_mount_point up to the loop: canonicalize, metadata, and dir is the
\* path if it is a directory, else its parent
find_mount_point_call ==
    /\ fmpc = "idle"
    /\ \E arg \in PathArgs, st \in Stats :
        /\ fmarg' = arg
        /\ fmstat' = st
        /\ LET canon == Path_canonicalize(arg)
           IN  IF ~canon.ok \/ canon.path \notin DOMAIN st
               THEN /\ fmres' = [ok |-> FALSE, path |-> <<>>]
                    /\ fmpc' = "done"
                    /\ UNCHANGED <<fmpath, fmdir>>
               ELSE /\ fmpath' = canon.path
                    /\ fmdir' = IF canon.path \in Dirs THEN canon.path
                                ELSE Path_parent(canon.path)
                    /\ fmpc' = "loop"
                    /\ UNCHANGED fmres
    /\ UNCHANGED <<exceptFs, mountsVars, hhVars>>

\* faulty variant of the loop: dir is not moved to its parent
find_mount_point_loop_NoAscent ==
    /\ fmpc = "loop"
    /\ IF fmdir # <<>>
          THEN LET next == Path_parent(fmdir)
               IN  IF next \notin DOMAIN fmstat
                   THEN fmres' = [ok |-> FALSE, path |-> <<>>] /\ fmpc' = "done"
                   ELSE IF fmstat[fmpath].dev # fmstat[next].dev
                           \/ fmstat[fmpath].ino = fmstat[next].ino
                        THEN fmres' = [ok |-> TRUE, path |-> fmdir] /\ fmpc' = "done"
                        ELSE UNCHANGED <<fmres, fmpc>>
          ELSE fmres' = [ok |-> TRUE, path |-> fmdir] /\ fmpc' = "done"
    /\ UNCHANGED <<exceptFs, mountsVars, hhVars, fmarg, fmstat, fmpath, fmdir>>

\* one iteration of the loop: without a parent dir is returned; with one,
\* dir is returned if the parent is on another device than the path, or
\* has the inode of the path, and else the loop goes on from the parent
find_mount_point_loop ==
    /\ fmpc = "loop"
    /\ IF fmdir # <<>>
          THEN LET next == Path_parent(fmdir)
               IN  IF next \notin DOMAIN fmstat
                   THEN /\ fmres' = [ok |-> FALSE, path |-> <<>>] /\ fmpc' = "done"
                        /\ UNCHANGED fmdir
                   ELSE IF fmstat[fmpath].dev # fmstat[next].dev
                           \/ fmstat[fmpath].ino = fmstat[next].ino
                        THEN /\ fmres' = [ok |-> TRUE, path |-> fmdir] /\ fmpc' = "done"
                             /\ UNCHANGED fmdir
                        ELSE fmdir' = next /\ UNCHANGED <<fmres, fmpc>>
          ELSE fmres' = [ok |-> TRUE, path |-> fmdir] /\ fmpc' = "done" /\ UNCHANGED fmdir
    /\ UNCHANGED <<exceptFs, mountsVars, hhVars, fmarg, fmstat, fmpath>>

NextFmp == find_mount_point_call \/ find_mount_point_loop

\* find_mount_point running without being suspended for ever
FairFmp == InitSig /\ [][NextFmp]_vars /\ WF_vars(NextFmp)

(* ------------------- hidehome.rs: HideHome::setup_priv --------------- *)
\* $HOME: unset or naming nothing, or the canonical path of a directory:
\* /, /root, /home/u, /home/u/sub
HomeEnvs ==
    {[ok |-> FALSE, path |-> <<>>]}
        \cup [ok : {TRUE}, path : {<<>>, <<"root">>, <<"home", "u">>, <<"home", "u", "sub">>}]

\* the canonical working directory
WorkDirs ==
    {<<>>, <<"root">>, <<"root", "w">>, <<"home", "u">>, <<"home", "u", "w">>,
     <<"home", "u", "sub">>, <<"home", "v">>, <<"srv", "p">>, <<"tmp">>, <<"tmp", "x">>}

\* the root of the tree to hide: the parent of $HOME, but $HOME itself if
\* it has no parent or its parent is "/"
HideRoot(home) == IF Len(home) <= 1 THEN home ELSE SubSeq(home, 1, Len(home) - 1)

\* the calls after the paths are computed, twd being /tmp joined with the
\* working directory relative to root
HideHomeCalls(root, wd) ==
    LET twd == <<"tmp">> \o Path_strip_prefix(wd, root)
    IN  << <<"mount_slave", <<>> >>,
           <<"mkdirs", <<"proc">> >>, <<"mount_proc", <<"proc">> >>,
           <<"mkdirs", <<"sys", "fs", "cgroup">> >>, <<"mount_tmpfs", <<"sys", "fs", "cgroup">> >>,
           <<"mkdirs", <<"sys", "fs", "cgroup", "unified">> >>,
           <<"mount_cgroup2", <<"sys", "fs", "cgroup", "unified">> >>,
           <<"mount_tmpfs", <<"tmp">> >>,
           <<"mkdirs", twd>>, <<"mount_bind", twd>>,
           <<"mount_move", root>>,
           <<"mount_tmpfs", <<"tmp">> >>,
           <<"mkdirs", <<"var", "tmp">> >>, <<"mount_tmpfs", <<"var", "tmp">> >>,
           <<"set_current_dir", wd>> >>

\* setup_priv up to the first call: $HOME, root, the working directory, and
\* the three strip_prefix, each returning the error if the prefix is not one
HideHome_setup_priv ==
    /\ hhpc = "idle"
    /\ \E home \in HomeEnvs, wd \in WorkDirs :
        /\ hhenv' = [home |-> home, cwd |-> wd]
        /\ IF ~home.ok
              THEN hhres' = "home" /\ hhpc' = "done" /\ UNCHANGED hhtodo
           ELSE IF ~Path_starts_with(wd, home.path)
              THEN hhres' = "cwd_not_under_home" /\ hhpc' = "done" /\ UNCHANGED hhtodo
           ELSE IF ~Path_starts_with(home.path, HideRoot(home.path))
                   \/ ~Path_starts_with(wd, HideRoot(home.path))
              THEN hhres' = "not_under_root" /\ hhpc' = "done" /\ UNCHANGED hhtodo
           ELSE /\ hhtodo' = HideHomeCalls(HideRoot(home.path), wd)
                /\ hhpc' = "calls"
                /\ UNCHANGED hhres
    /\ UNCHANGED <<exceptFs, mountsVars, fmVars, hhlog>>

\* the next call: it succeeds, and after the last one setup_priv returns
\* Ok, or it fails and setup_priv returns its error
HideHome_setup_priv_call ==
    /\ hhpc = "calls"
    /\ hhlog' = Append(hhlog, Head(hhtodo))
    /\ \/ /\ hhtodo' = Tail(hhtodo)
          /\ IF Tail(hhtodo) = <<>>
                THEN hhres' = "ok" /\ hhpc' = "done"
                ELSE UNCHANGED <<hhres, hhpc>>
       \/ /\ hhres' = "call_failed"
          /\ hhpc' = "done"
          /\ UNCHANGED hhtodo
    /\ UNCHANGED <<exceptFs, mountsVars, fmVars, hhenv>>

NextHideHome == HideHome_setup_priv \/ HideHome_setup_priv_call

SpecHideHome == InitSig /\ [][NextHideHome]_vars

(* ------------- bin/isolate.rs: Isolate::setup_priv, staging ----------- *)
\* error numbers a call may fail with
Errnos == {"EINVAL", "EACCES", "EPERM", "ENOENT"}

\* std: the io::ErrorKind of an error number
ErrorKindOf(errno) ==
    CASE errno \in {"EACCES", "EPERM"} -> "PermissionDenied"
      [] errno = "ENOENT" -> "NotFound"
      [] OTHER -> "InvalidInput"

\* Error::is_io_error: the error wraps an io::Error of this kind
Error_is_io_error(errno, kind) == ErrorKindOf(errno) = kind

\* faulty variant of maybe_umount_lazy: EINVAL is an error like any other
maybe_umount_lazy_Strict(out) ==
    IF out = "ok" THEN "Ok(true)" ELSE "Err"

\* util::maybe_umount_lazy by what umount2 did
maybe_umount_lazy(out) ==
    IF out = "ok" THEN "Ok(true)" ELSE IF out = "EINVAL" THEN "Ok(false)" ELSE "Err"

\* the calls from the entry of setup_priv to Mounts::current()
StageCalls(net) ==
    (IF ~net THEN << <<"configure_lo", "lo">>, <<"dummy_bridge", "br">> >> ELSE <<>>)
        \o << <<"mount_private", "/">>, <<"mount_proc", "/proc">>, <<"mkdir", "root">>,
              <<"mount_rbind", "root">>, <<"umount_lazy", "root/proc">>,
              <<"maybe_umount_lazy", "root/dev/shm">>, <<"maybe_umount_lazy", "root/tmp">>,
              <<"maybe_umount_lazy", "root/var/tmp">>, <<"Mounts::current", "self">> >>

\* the special mounts after the loop
SpecialCalls ==
    << <<"mount_proc", "root/proc">>, <<"mount_tmpfs", "root/tmp">>,
       <<"mount_tmpfs", "root/dev/shm">>, <<"mount_tmpfs", "root/var/tmp">> >>

\* mounts Mounts::current() may list
MountInfos ==
    {[mount_point |-> "/proc", fstype |-> "proc", source |-> "proc", rdonly |-> FALSE],
     [mount_point |-> "root", fstype |-> "ext4", source |-> "/dev/sda1", rdonly |-> FALSE],
     [mount_point |-> "root/boot", fstype |-> "ext4", source |-> "/dev/sda2", rdonly |-> TRUE],
     [mount_point |-> "root/run", fstype |-> "tmpfs", source |-> "tmpfs", rdonly |-> FALSE],
     [mount_point |-> "root/sys/fs/cgroup", fstype |-> "cgroup2", source |-> "cgroup2", rdonly |-> FALSE],
     [mount_point |-> "root/sys/kernel/debug", fstype |-> "debugfs", source |-> "debugfs", rdonly |-> FALSE]}

\* mp.mount_point.starts_with(&new_root)
UnderNewRoot(mp) == mp.mount_point # "/proc"

\* mp.source.starts_with("/dev/")
DeviceSource(mp) == mp.source \in {"/dev/sda1", "/dev/sda2"}

\* the calls one iteration of the loop makes for mp when none fails: the
\* unmount of a black-listed file system, then the read-only remount
VisitCalls(user, mp) ==
    IF ~UnderNewRoot(mp) THEN <<>>
    ELSE (IF ~user /\ mp.fstype \in {"cgroup", "cgroup2", "debugfs"}
             THEN << <<"umount_lazy", mp.mount_point>> >> ELSE <<>>)
         \o (IF ~mp.rdonly /\ (DeviceSource(mp) \/ mp.fstype \in {"tmpfs", "ramfs"})
                THEN << <<"remount_ro", mp.mount_point>> >> ELSE <<>>)

\* faulty variant of the match on the result of the remount: a permission
\* error is passed over in either mode
Tolerated_AnyMode(user, call, out) ==
    call[1] = "remount_ro" /\ Error_is_io_error(out, "PermissionDenied")

\* the result of a call that failed is replaced by Ok(())
Tolerated(user, call, out) ==
    call[1] = "remount_ro" /\ user /\ Error_is_io_error(out, "PermissionDenied")

\* a call returned without an error for setup_priv to return
Passed(user, call, out) ==
    \/ out = "ok"
    \/ call[1] = "maybe_umount_lazy" /\ maybe_umount_lazy(out) # "Err"
    \/ Tolerated(user, call, out)

\* setup_priv is entered
Isolate_setup_priv_enter ==
    /\ wpc = "idle"
    /\ \E user \in BOOLEAN, net \in BOOLEAN :
        /\ wuser' = user
        /\ wnet' = net
        /\ wtodo' = StageCalls(net)
    /\ wpc' = "stage"
    /\ UNCHANGED <<exceptWalk, wlog, wres>>

\* the next call before or after the loop: it passes, and after the last
\* one of its phase the loop or the user binds follow, or setup_priv returns
\* its error
Isolate_setup_priv_call ==
    /\ wpc \in {"stage", "special"}
    /\ \E out \in {"ok"} \cup Errnos :
        /\ wlog' = Append(wlog, [call |-> Head(wtodo), at |-> NoMount, out |-> out])
        /\ IF Passed(wuser, Head(wtodo), out)
              THEN /\ wtodo' = Tail(wtodo)
                   /\ IF Tail(wtodo) # <<>> THEN UNCHANGED <<wpc, wres>>
                      ELSE IF wpc = "stage" THEN wpc' = "walk" /\ UNCHANGED wres
                      ELSE wpc' = "done" /\ wres' = "binds"
              ELSE wpc' = "done" /\ wres' = "err" /\ UNCHANGED wtodo
    /\ UNCHANGED <<exceptWalk, wuser, wnet>>

\* one iteration of the loop over Mounts::current()
Isolate_setup_priv_visit ==
    /\ wpc = "walk"
    /\ Cardinality({i \in 1..Len(wlog) : wlog[i].call[1] = "visit"}) < MaxMounts
    /\ \E mp \in MountInfos :
        LET calls == VisitCalls(wuser, mp)
        IN  \E outs \in [1..Len(calls) -> {"ok"} \cup Errnos] :
              LET bad == {i \in 1..Len(calls) : ~Passed(wuser, calls[i], outs[i])}
                  stop == IF bad = {} THEN Len(calls)
                          ELSE CHOOSE i \in bad : \A j \in bad : i <= j
              IN  /\ wlog' = Append(wlog, [call |-> <<"visit", mp.mount_point>>,
                                           at |-> mp, out |-> "ok"])
                               \o [i \in 1..stop |-> [call |-> calls[i], at |-> mp, out |-> outs[i]]]
                  /\ IF bad = {} THEN UNCHANGED <<wpc, wres>>
                     ELSE wpc' = "done" /\ wres' = "err"
    /\ UNCHANGED <<exceptWalk, wuser, wnet, wtodo>>

\* the loop ends
Isolate_setup_priv_walked ==
    /\ wpc = "walk"
    /\ wtodo' = SpecialCalls
    /\ wpc' = "special"
    /\ UNCHANGED <<exceptWalk, wuser, wnet, wlog, wres>>

NextWalk ==
    \/ Isolate_setup_priv_enter
    \/ Isolate_setup_priv_call
    \/ Isolate_setup_priv_visit
    \/ Isolate_setup_priv_walked

SpecWalk == InitSig /\ [][NextWalk]_vars

(* ------------------------------ properties ---------------------------- *)
HookOrder == <<"A", "B", "C", "D", "E">>

IsPrefix(a, b) == Len(a) <= Len(b) /\ a = SubSeq(b, 1, Len(a))

\* no hook invoked so far has failed
AllHooksOk == \A h \in DOMAIN res : res[h] \notin {"err", "perm"}

RuncReturned == pc["P"] \in {"returned", "exited"}

Terminated(p) == life[p] \in {"zombie", "reaped"}

UnshareFailed == res["unshare"] \in {"perm", "err"}

\* C1: hooks are only ever invoked in the order A B C D E, each at most
\* once, in every interleaving of the three processes; and once runc has
\* returned from a run in which every hook succeeded (and no system call of
\* the orchestrator failed) the log reads exactly "ABCDE".
C1_HookOrder ==
    /\ IsPrefix(log, HookOrder)
    /\ (RuncReturned /\ AllHooksOk /\ envFail = {}) => log = HookOrder

C1_Witness ==
    /\ pc["P"] = "returned" /\ ret.kind = "ok"
    /\ AllHooksOk /\ envFail = {}
    /\ log = HookOrder

\* C2: the grandchild exists (and setup_priv has started) only if the
\* child's unshare hook returned Ok, the parent's set_id_map hook returned Ok
\* and the parent has written the release byte; the parent is at, or past,
\* the call of set_id_map only if the byte it read from the child is '.'.
C2_Barrier ==
    /\ (life["G"] # "none" \/ res["setup_priv"] # "none")
          => (res["unshare"] = "ok" /\ res["set_id_map"] = "ok" /\ released)
    /\ (pc["P"] = "p_idmap" \/ res["set_id_map"] # "none")
          => (msg = "." /\ res["unshare"] = "ok")

C2_Witness ==
    /\ life["G"] = "run" /\ res["setup_priv"] = "ok"
    /\ res["unshare"] = "ok" /\ res["set_id_map"] = "ok" /\ released

\* C3: when every hook succeeded, no system call of the orchestrator failed
\* and the grandchild exited normally with code c, then the child, once
\* terminated, has exited normally with code c, and runc, once returned, has
\* returned Ok(c).
C3_ExitCodePropagated ==
    \A c \in ExitCodes :
        (AllHooksOk /\ envFail = {} /\ Terminated("G") /\ wstatus["G"] = StatusExit(c))
            => /\ Terminated("C") => wstatus["C"] = StatusExit(c)
               /\ ret.kind # "none" => ret = [kind |-> "ok", code |-> c]

C3_Witness ==
    /\ AllHooksOk /\ envFail = {}
    /\ wstatus["G"] = StatusExit(2) /\ wstatus["C"] = StatusExit(2)
    /\ ret = [kind |-> "ok", code |-> 2]

\* C4: an entry point that has exited after runc returned Ok(c) has exited
\* with code c (0 only if the inner command completed with 0, non-zero if the
\* inner command's code is non-zero).
C4_EntryExitsWithRuncCode ==
    (mainExit # -1 /\ ret.kind = "ok") => mainExit = ret.code

\* C5: once the child's unshare hook has failed (PermissionDenied or another
\* error), the byte the parent reads is never '.', the parent reaches park
\* and runc eventually returns.
C5_ParentNotWedged ==
    /\ [](UnshareFailed => (msg # "." /\ pc["P"] # "p_idmap"))
    /\ UnshareFailed ~> installed["P"]
    /\ UnshareFailed ~> RuncReturned

C5_Witness ==
    /\ res["unshare"] = "err" /\ msg = "X"
    /\ installed["P"] /\ pc["P"] = "returned"

\* C6: whenever the grandchild is about to invoke the setup hook, or has
\* invoked it, setup_priv has returned Ok and all three capability masks of
\* the grandchild are empty; if a system call of the grandchild failed (the
\* clear among them) setup is never invoked.
C6_SetupWithoutCaps ==
    /\ (pc["G"] = "setup" \/ res["setup"] # "none")
          => (caps["G"] = NoCaps /\ res["setup_priv"] = "ok")
    /\ "G" \in envFail => (pc["G"] # "setup" /\ res["setup"] = "none")

C6_Witness ==
    /\ res["setup"] = "exec" /\ pc["G"] = "cmd"
    /\ born.caps.permitted = FullCaps
    /\ caps["G"] = NoCaps

\* C7: a parent or child blocked in park has euid = ruid, egid = rgid and
\* three empty capability masks; the parent keeps its credentials through
\* the handshake and has dropped them only after set_id_map ran or was
\* skipped; the child has dropped them only after forking the grandchild,
\* which was born with the un-dropped credentials and capabilities.
C7_ParkedUnprivileged ==
    /\ \A p \in Parkers :
          (Parked(p) \/ (pc[p] = "park" /\ life[p] = "run"))
             => /\ cred[p].euid = cred[p].ruid
                /\ cred[p].egid = cred[p].rgid
                /\ caps[p] = NoCaps
    /\ pc["P"] \in {"p_read", "p_idmap", "p_release"}
          => (cred["P"] = InitCred(scenario) /\ caps["P"] = InitCaps(scenario))
    /\ "P" \in dropped => (res["set_id_map"] # "none" \/ msg \in {"X", "!"})
    /\ "C" \in dropped => life["G"] # "none"
    /\ life["G"] # "none"
          => /\ born.cred = InitCred(scenario)
             /\ born.caps = [effective |-> FullCaps, permitted |-> FullCaps,
                             inheritable |-> {}]

C7_Witness ==
    /\ scenario = "suid"
    /\ Parked("P") /\ Parked("C") /\ life["G"] = "run"
    /\ born.cred.euid = 0 /\ cred["C"].euid = 1000 /\ cred["P"].euid = 1000

\* C8: in each call of Proc::park the k-th signal forwarded is never for a
\* received SIGCHLD; for k = 1, 2 the number sent is the number received and
\* for k >= 3 it is SIGKILL; cnt counts exactly the forwarded signals, and
\* SIGCHLD is never sent to a managed process.
C8_Forwarding ==
    \A p \in Parkers :
        /\ cnt[p] = Len(fwd[p])
        /\ SIGCHLD \notin sentTo[Managed(p)]
        /\ \A k \in 1..Len(fwd[p]) :
              /\ fwd[p][k][1] # SIGCHLD
              /\ fwd[p][k][2] = IF k <= 2 THEN fwd[p][k][1] ELSE SIGKILL

C8_Witness ==
    /\ Len(fwd["P"]) >= 3
    /\ fwd["P"][1] = <<SIGINT, SIGINT>>
    /\ fwd["P"][2] = <<SIGTERM, SIGTERM>>
    /\ fwd["P"][3][2] = SIGKILL
    /\ proc["P"].done

\* C9: with signals delivered only to the orchestrator, the child never
\* forwards more signals than the orchestrator did, and when runc has
\* returned after the orchestrator received three (or more) SIGINTs, the
\* child having been parked on the grandchild (the chain was in place) and
\* the grandchild still running, the grandchild has been sent SIGKILL.
C9_EscalationReachesGrandchild ==
    /\ Len(fwd["C"]) <= Len(fwd["P"])
    /\ (/\ RuncReturned
        /\ Len(fwd["P"]) >= 3
        /\ \A k \in 1..Len(fwd["P"]) : fwd["P"][k][1] = SIGINT
        /\ installed["C"]
        /\ life["G"] = "run")
          => SIGKILL \in sentTo["G"]

\* C10: a park that has received three terminating signals has sent SIGKILL
\* to its managed process, and (the kernel delivering signals and park being
\* scheduled) it is eventually no longer blocked: park returns.
C10_ParkTerminates ==
    /\ [](\A p \in Parkers : cnt[p] >= 3 => SIGKILL \in sentTo[Managed(p)])
    /\ \A p \in Parkers : (cnt[p] >= 3) ~> (~Parked(p) /\ proc[p].done)

C10_Witness ==
    /\ cnt["P"] >= 3 /\ SIGKILL \in sentTo["C"]
    /\ proc["P"].done /\ pc["P"] = "returned"

\* some park on the handle has returned a code before event j of hist
ReapedBefore(j) == \E i \in 1..(j - 1) : hist[i][1] = "ret"

\* C11: once a park on a handle has returned N, nothing later in the
\* handle's history is a waitpid, a handler registration or an error return;
\* every later park call is followed at once by the return of N; and a done
\* handle is never inside the wait loop.
C11_ParkIdempotent ==
    /\ \A i \in 1..Len(hist) : hist[i][1] = "ret" =>
          \A j \in (i + 1)..Len(hist) :
              /\ hist[j][1] \notin {"waitpid", "install", "reterr"}
              /\ hist[j][1] = "ret" => hist[j][2] = hist[i][2]
              /\ hist[j][1] = "park" => (j < Len(hist) /\ hist[j + 1] = Ev("ret", hist[i][2]))
    /\ hnd.done => (ppc = "idle" /\ hnd.code = WEXITSTATUS(mproc.status))

C11_Witness ==
    /\ Len(hist) >= 8
    /\ hist[4] = Ev("ret", 2)
    /\ hist[5] = Ev("park", 0) /\ hist[6] = Ev("ret", 2)
    /\ hist[7] = Ev("park", 0) /\ hist[8] = Ev("ret", 2)

\* C12: kill() is never issued on the handle's pid after a park returned its
\* code (the handle is done exactly when the process is reaped); a signal or
\* kill call made then issues nothing; a drop is the last call, followed by
\* exactly one kill(pid, SIGKILL) when the process was not reaped and by
\* nothing when it was.
C12_NoSignalAfterReap ==
    /\ hnd.done <=> mproc.life = "reaped"
    /\ \A j \in 1..Len(hist) :
          /\ hist[j][1] = "kill" => ~ReapedBefore(j)
          /\ (hist[j][1] = "signal" /\ ~ReapedBefore(j))
                => (j < Len(hist) /\ hist[j + 1] = Ev("kill", hist[j][2]))
          /\ hist[j][1] = "drop" =>
                IF ReapedBefore(j)
                   THEN Len(hist) = j
                   ELSE Len(hist) = j + 1 /\ hist[j + 1] = Ev("kill", SIGKILL)

C12_Witness ==
    /\ ~held /\ hnd.done /\ Len(hist) = 6
    /\ hist[4][1] = "ret"
    /\ hist[5] = Ev("signal", SIGKILL)
    /\ hist[6] = Ev("drop", 0)

SetupPrivFailed == res["setup_priv"] = "err"

\* C13: once setup_priv has returned an error, setup is never invoked; the
\* grandchild, once terminated, has exited with code 1, and so has the
\* child; runc, once returned, has returned 1; and runc does return 1.
C13_GrandchildFailureCollapses ==
    /\ [](SetupPrivFailed =>
             /\ res["setup"] = "none" /\ pc["G"] # "setup"
             /\ Terminated("G") => wstatus["G"] = StatusExit(1)
             /\ Terminated("C") => wstatus["C"] = StatusExit(1)
             /\ ret.kind # "none" => ret = [kind |-> "ok", code |-> 1])
    /\ SetupPrivFailed ~> (ret = [kind |-> "ok", code |-> 1])

C13_Witness ==
    /\ SetupPrivFailed /\ log = <<"A", "B", "C", "D">>
    /\ wstatus["G"] = StatusExit(1) /\ wstatus["C"] = StatusExit(1)
    /\ pc["P"] = "returned" /\ ret = [kind |-> "ok", code |-> 1]

\* str::split: the segments of s between the occurrences of sep
RECURSIVE SplitFrom(_, _, _)
SplitFrom(s, sep, cur) ==
    IF s = <<>> THEN <<cur>>
    ELSE IF Head(s) = sep THEN <<cur>> \o SplitFrom(Tail(s), sep, <<>>)
    ELSE SplitFrom(Tail(s), sep, Append(cur, Head(s)))

Split(s, sep) == SplitFrom(s, sep, <<>>)

\* the lines of a text: the segments before each newline, and what follows the last
Lines(text) == LET segs == Split(text, "\n") IN SubSeq(segs, 1, Len(segs) - 1)

Unterminated(text) == LET segs == Split(text, "\n") IN segs[Len(segs)]

\* the line the kernel reads from uid_map / gid_map for a mapping of
\* [outer, outer+count) in the parent namespace to [inner, inner+count)
KernelLine(outer, inner, count) ==
    Dec(inner) \o <<" ">> \o Dec(outer) \o <<" ">> \o Dec(count) \o <<"\n">>

\* the add calls that were not overwritten by a later add of the same outer start
Surviving ==
    {i \in 1..Len(adds) : \A j \in (i + 1)..Len(adds) : adds[j][1] # adds[i][1]}

\* C14: for every entry added with add(outer, inner, count), map_file
\* emits the line "inner outer count\n": the inner start first, the outer
\* start second.
C14_KernelFieldOrder ==
    ipc # "none" =>
        LET lines == Lines(map_file(idm))
        IN  \A i \in Surviving :
                \E n \in 1..Len(lines) :
                    Append(lines[n], "\n") = KernelLine(adds[i][1], adds[i][2], adds[i][3])

\* C15: for any sequence of add calls, map_file is empty for the empty map
\* and otherwise a sequence of non-empty lines each ended by one newline,
\* one line per distinct outer start, in strictly ascending order of the
\* outer start; map_args is the fields of those lines in the same order;
\* add(0,1,2).add(15,16,2) gives "0 1 2\n15 16 2\n" and
\* ["0","1","2","15","16","2"].
C15_SortedLines ==
    LET text == map_file(idm)
        lines == Lines(text)
        fields == [n \in 1..Len(lines) |-> Split(lines[n], " ")]
        example == {<<0, 1, 2>>, <<15, 16, 2>>}
    IN  /\ Unterminated(text) = <<>>
        /\ adds = <<>> => text = <<>>
        /\ \A n \in 1..Len(lines) :
            /\ lines[n] # <<>>
            /\ Len(fields[n]) = 3
            /\ \A k \in 1..3 : IsNumber(fields[n][k])
        /\ Len(lines) = Cardinality({adds[i][1] : i \in 1..Len(adds)})
        /\ {ParseDec(fields[n][1]) : n \in 1..Len(lines)}
               = {adds[i][1] : i \in 1..Len(adds)}
        /\ \A n \in 1..(Len(lines) - 1) :
               ParseDec(fields[n][1]) < ParseDec(fields[n + 1][1])
        /\ map_args(idm) = Concat(fields)
        /\ (Len(adds) = 2 /\ {adds[1], adds[2]} = example) =>
            /\ text = <<"0", " ", "1", " ", "2", "\n",
                        "1", "5", " ", "1", "6", " ", "2", "\n">>
            /\ map_args(idm) = << <<"0">>, <<"1">>, <<"2">>,
                                  <<"1", "5">>, <<"1", "6">>, <<"2">> >>

C15_Witness ==
    /\ ipc = "open"
    /\ adds = << <<15, 16, 2>>, <<0, 1, 2>> >>
    /\ Len(Lines(map_file(idm))) = 2
    /\ Len(map_args(idm)) = 6

\* C16: write writes uid_map directly iff the kind is uid and CAP_SETUID
\* is in the caller's effective set, gid_map directly iff the kind is gid
\* and CAP_SETGID is effective, and otherwise runs newuidmap / newgidmap
\* with the pid followed by the flattened tokens.
C16_WritePathChoice ==
    (ipc = "done" /\ wr.path # "none") =>
        /\ (wr.path = "file" /\ wr.target = "uid_map")
               <=> (idm.isuid /\ CAP_SETUID \in eff)
        /\ (wr.path = "file" /\ wr.target = "gid_map")
               <=> (~idm.isuid /\ CAP_SETGID \in eff)
        /\ wr.path = "file" => wr.data = map_file(idm)
        /\ wr.path # "file" =>
            /\ wr.path = "helper"
            /\ wr.target = (IF idm.isuid THEN "newuidmap" ELSE "newgidmap")
            /\ wr.argv = <<Dec(idm.pid)>> \o map_args(idm)

\* C17: when write ran the helper and the helper exited, write returns Ok
\* only for exit status 0 and the UIDMap error for every other status.
C17_HelperFailureIsError ==
    (ipc = "done" /\ wr.path = "helper" /\ wr.helper.kind = "exit") =>
        /\ wr.helper.code = 0 => wr.result = "ok"
        /\ wr.helper.code # 0 => wr.result = "UIDMap"

\* the paths of the items of a plan
PlanPaths(m) == {m[i][2] : i \in 1..Len(m)}

\* the position of the last item of plan m naming path d
LastIndex(m, d) == CHOOSE i \in 1..Len(m) : m[i][2] = d /\ \A j \in (i + 1)..Len(m) : m[j][2] # d

\* the removal of duplicates has run
Planned == plan0 # <<>>

\* C18: after the removal of duplicates the plan holds each path of the
\* input exactly once, with the type of that path's last occurrence, and
\* in the order of the last occurrences; [(W,/a),(W,/b),(R,/a)] becomes
\* [(W,/b),(R,/a)].
C18_LastOccurrenceWins ==
    Planned =>
        /\ PlanPaths(mounts) = PlanPaths(plan0)
        /\ \A i, j \in 1..Len(mounts) : mounts[i][2] = mounts[j][2] => i = j
        /\ \A i \in 1..Len(mounts) : mounts[i] = plan0[LastIndex(plan0, mounts[i][2])]
        /\ \A i, j \in 1..Len(mounts) :
               i < j => LastIndex(plan0, mounts[i][2]) < LastIndex(plan0, mounts[j][2])
        /\ plan0 = << <<"Writable", "/a">>, <<"Writable", "/b">>, <<"ReadOnly", "/a">> >>
               => mounts = << <<"Writable", "/b">>, <<"ReadOnly", "/a">> >>

C18_Witness ==
    /\ mainpc = "planned"
    /\ plan0 = << <<"Writable", "/a">>, <<"Writable", "/b">>, <<"ReadOnly", "/a">> >>
    /\ mounts = << <<"Writable", "/b">>, <<"ReadOnly", "/a">> >>

\* the working directory the options select: that of the last -C, if any
FinalCwd == IF lastC = "none" THEN InitialCwd ELSE lastC

\* C19: the plan entering the removal of duplicates has (Writable, final
\* working directory) as its first entry; afterwards that directory occurs
\* exactly once in the plan, and is Writable unless an entry made by an
\* option, later in the plan, names the same path.
C19_CwdFirstAndWritable ==
    Planned =>
        /\ cwd = FinalCwd
        /\ plan0[1] = <<"Writable", FinalCwd>>
        /\ Cardinality({i \in 1..Len(mounts) : mounts[i][2] = FinalCwd}) = 1
        /\ (\A j \in 2..Len(plan0) : plan0[j][2] # FinalCwd)
               => \E i \in 1..Len(mounts) : mounts[i] = <<"Writable", FinalCwd>>

C19_Witness ==
    /\ mainpc = "planned"
    /\ lastC = "/b"
    /\ plan0 = << <<"Writable", "/b">>, <<"ReadOnly", "/a">>, <<"Tmp", "/a">> >>
    /\ mounts = << <<"Writable", "/b">>, <<"Tmp", "/a">> >>

IsBind(ev) == ev[1] \in {"bind", "remount_ro"}

\* C20: every tmpfs mount of the user binds is performed after every bind
\* of the plan: no bind follows a tmpfs mount, and when a tmpfs mount is
\* performed every ReadOnly and Writable item of the plan has been bound.
C20_TmpfsAfterBinds ==
    /\ \A i, j \in 1..Len(mlog) : (mlog[i][1] = "tmpfs" /\ IsBind(mlog[j])) => j < i
    /\ (\E i \in 1..Len(mlog) : mlog[i][1] = "tmpfs") =>
           \A n \in 1..Len(mounts) :
               /\ mounts[n][1] # "Tmp" =>
                      \E j \in 1..Len(mlog) : mlog[j] = <<"bind", mounts[n][2]>>
               /\ mounts[n][1] = "ReadOnly" =>
                      \E j \in 1..Len(mlog) : mlog[j] = <<"remount_ro", mounts[n][2]>>
    /\ mainpc = "mounted" =>
           \A n \in 1..Len(mounts) :
               mounts[n][1] = "Tmp" => \E j \in 1..Len(mlog) : mlog[j] = <<"tmpfs", mounts[n][2]>>

C20_Witness ==
    /\ mainpc = "mounted"
    /\ mounts = << <<"Tmp", "/b">>, <<"ReadOnly", "/a">> >>
    /\ mlog = << <<"bind", "/a">>, <<"remount_ro", "/a">>, <<"tmpfs", "/b">> >>

\* C21: for a Writable item whose target is missing outside /tmp the error
\* is logged and the bind is skipped: no mount call for that path follows
\* the logged error, and the user binds do not end with an error at it.
C21_MissingTargetSkipped ==
    \A i \in 1..Len(mlog) :
        mlog[i][1] = "log_error" =>
            /\ \A j \in (i + 1)..Len(mlog) :
                   mlog[j] \notin {<<"bind", mlog[i][2]>>, <<"bind_failed", mlog[i][2]>>}
            /\ ~(i = Len(mlog) /\ mainpc = "err")

\* C26: when the parent's read gave UnexpectedEof ('!') or a byte other
\* than '.', set_id_map is not invoked and the release byte is not written:
\* the parent is at the privilege drop, in park, or has returned, and an
\* error return then comes from a failed system call of the drop or of
\* park; when the read itself failed, runc returns the error without
\* dropping privileges or parking.
C26_NoMapWithoutHello ==
    /\ msg \notin {"0", "."} =>
           /\ res["set_id_map"] = "none" /\ ~released /\ toChild = <<>>
           /\ pc["P"] \notin {"p_read", "p_idmap", "p_release"}
           /\ (pc["P"] = "returned" /\ ret.kind = "err") => "P" \in envFail
           /\ (pc["P"] = "returned" /\ ret.kind = "ok") => ("P" \in dropped /\ proc["P"].done)
    /\ (msg = "0" /\ life["C"] # "none" /\ pc["P"] = "returned") =>
           /\ ret.kind = "err" /\ "P" \in envFail
           /\ "P" \notin dropped /\ ~installed["P"] /\ ~proc["P"].done

C26_Witness ==
    /\ msg = "!" /\ res["unshare"] = "perm"
    /\ res["set_id_map"] = "none" /\ ~released
    /\ "P" \in dropped /\ pc["P"] = "returned" /\ ret = [kind |-> "ok", code |-> 1]

\* C27: when setup_priv is about to be invoked the grandchild's effective
\* and real ids are equal and its effective capability mask equals its
\* permitted mask, the permitted and inheritable masks being those it was
\* forked with (activate sets effective := permitted and nothing else).
C27_ActivatedBeforeSetupPriv ==
    (pc["G"] = "setup_priv" /\ life["G"] = "run") =>
        /\ cred["G"].euid = cred["G"].ruid /\ cred["G"].egid = cred["G"].rgid
        /\ caps["G"].effective = caps["G"].permitted
        /\ caps["G"].permitted = born.caps.permitted
        /\ caps["G"].inheritable = born.caps.inheritable
        /\ res["setup_priv"] = "none"

C27_Witness ==
    /\ pc["G"] = "setup_priv" /\ life["G"] = "run" /\ scenario = "suid"
    /\ born.cred.euid = 0 /\ cred["G"].euid = 1000
    /\ caps["G"].effective = FullCaps

\* C28: for every capability number cap in 0..63 and every effective mask,
\* Cap::effective(cap) is true iff bit (cap mod 32) of word (cap div 32) of
\* the mask is set, that is iff cap is in the effective set.
C28_EffectiveTestsItsBit ==
    ipc = "done" => \A cap \in 0..63 : Cap_effective(eff, cap) <=> cap \in eff

\* C29: a Proc handle starts with done = false; done and code change only
\* in the step in which waitpid reports the termination of the pid, from
\* not done to done with the exit status reported; once done is true,
\* neither done nor code changes under any call of signal, kill, park or drop.
C29_HandleMonotonic ==
    /\ hnd = [done |-> FALSE, code |-> -1]
    /\ [][/\ hnd.done => hnd' = hnd
          /\ hnd' # hnd =>
              /\ ~hnd.done /\ hnd'.done
              /\ ppc = "trywait" /\ mproc.life = "zombie" /\ mproc'.life = "reaped"
              /\ hnd'.code = (mproc.status \div 256) % 256]_vars

C29_Witness ==
    /\ hnd = [done |-> TRUE, code |-> 1]
    /\ Len(hist) = 8
    /\ hist[4] = Ev("ret", 1) /\ hist[5] = Ev("signal", SIGTERM)
    /\ hist[6] = Ev("signal", SIGKILL) /\ hist[7] = Ev("park", 0) /\ hist[8] = Ev("ret", 1)

\* C30: the crate-root park polls waitpid before it waits for a signal, so
\* it returns once the child has terminated, also when the child
\* terminated before the handlers were registered: a caller inside park
\* whose child has terminated eventually gets the return.
C30_LibParkReturns ==
    (ppc = "next" /\ mproc.life = "zombie") ~> (ppc = "done")

\* C22: Mounts::parse terminates on every input: once called it
\* eventually returns a Mounts value or an error, a line without the
\* separator "-" giving a parse error.
C22_ParseTerminates == (mpc # "idle") ~> (mres # "none")

\* C23: Mounts::parse of a file without lines returns MissingMount, and
\* the map of a Mounts value that was returned is not empty.
C23_NeverEmpty ==
    /\ (mpc = "done" /\ lino = 0) => mres = "MissingMount"
    /\ mres = "ok" => DOMAIN infos # {}
    /\ mres = "MissingMount" => (lino = 0 /\ DOMAIN infos = {})

C23_Witness == mpc = "done" /\ lino = 0 /\ mres = "MissingMount" /\ infos = <<>>

\* C24: find_mount_point terminates for every argument. For a path that
\* exists it returns the canonical path or one of its ancestors, a
\* directory; for "/" it returns "/"; for the empty path and any path that
\* cannot be canonicalized it returns an error.
C24_FindMountPoint ==
    /\ [](fmpc = "done" =>
            /\ Path_canonicalize(fmarg).ok =>
                  /\ fmres.ok
                  /\ fmres.path \in Dirs
                  /\ IsPrefix(fmres.path, Path_canonicalize(fmarg).path)
            /\ ~Path_canonicalize(fmarg).ok => ~fmres.ok
            /\ fmarg = [abs |-> TRUE, comps |-> <<>>] => fmres = [ok |-> TRUE, path |-> <<>>]
            /\ fmarg = [abs |-> FALSE, comps |-> <<>>] => ~fmres.ok)
    /\ (fmpc = "loop") ~> (fmpc = "done")

\* the call on the file /a/b/f, reached through the link /l, ascended two
\* directories and returned /
C24_Witness ==
    /\ fmpc = "done"
    /\ fmarg = [abs |-> TRUE, comps |-> <<"l", "f">>]
    /\ fmpath = <<"a", "b", "f">>
    /\ fmres = [ok |-> TRUE, path |-> <<>>]

\* C25: hidehome accepts a working directory outside the root it hides:
\* when the working directory is neither under that root nor under /tmp,
\* setup_priv does not fail on it but goes on to its mounts; only a working
\* directory under /tmp is rejected.
C25_CwdOutsideRootAccepted ==
    (hhpc # "idle" /\ hhenv.home.ok
        /\ ~Path_starts_with(hhenv.cwd, HideRoot(hhenv.home.path))
        /\ ~Path_starts_with(hhenv.cwd, <<"tmp">>))
      => hhres \notin {"cwd_not_under_home", "not_under_root"}

\* C40: park never reports exit code 0 for a managed process that was
\* terminated by a signal: when runc has returned Ok(0), the child exited
\* normally with status 0.
C40_ZeroMeansNormalExit ==
    (ret.kind = "ok" /\ ret.code = 0) => wstatus["C"] = StatusExit(0)

\* C37: once set_id_map has returned an error, no grandchild is ever
\* forked and setup_priv and setup are never invoked, runc has returned the
\* error, and the child has been sent SIGKILL by the drop of the parent's
\* Proc handle; the child does not wait for the release byte for ever: it
\* terminates.
C37_IdMapFailureCollapses ==
    /\ [](res["set_id_map"] = "err" =>
             /\ life["G"] = "none"
             /\ res["setup_priv"] = "none" /\ res["setup"] = "none"
             /\ ret = [kind |-> "err", code |-> -1]
             /\ SIGKILL \in sentTo["C"])
    /\ (res["set_id_map"] = "err") ~> Terminated("C")

\* the child, waiting for the release byte, was terminated by the SIGKILL
C37_Witness ==
    /\ res["set_id_map"] = "err" /\ log = <<"A", "B", "C">>
    /\ pc["P"] \in {"returned", "exited"}
    /\ life["C"] = "zombie" /\ wstatus["C"] = StatusSignaled(SIGKILL)

\* C38: once the unshare hook has failed, none of set_id_map, setup_priv
\* and setup is ever invoked, no grandchild is forked, and runc does not
\* return exit code 0.
C38_UnshareFailureCollapses ==
    UnshareFailed =>
        /\ res["set_id_map"] = "none" /\ res["setup_priv"] = "none" /\ res["setup"] = "none"
        /\ life["G"] = "none"
        /\ ret # [kind |-> "ok", code |-> 0]

\* C36: -c denies writes to the working directory the command runs in: for
\* a command line of -c and -C options in any order, the plan holds
\* (ReadOnly, final working directory) and no Writable entry for it.
C36_NoPwdFollowsChdir ==
    (Planned /\ "c" \in used /\ used \subseteq {"c", "C"}) =>
        /\ \E i \in 1..Len(mounts) : mounts[i] = <<"ReadOnly", FinalCwd>>
        /\ \A i \in 1..Len(mounts) : mounts[i] # <<"Writable", FinalCwd>>

\* C39: the handshake is free of deadlock: the parent and the child are
\* never both blocked reading the socket pair, and a read that blocks
\* eventually returns, with a byte or end-of-file, or its process is
\* terminated.
C39_HandshakeDeadlockFree ==
    /\ [](~(/\ pc["P"] = "p_read" /\ toParent = <<>> /\ childEnd # {}
            /\ pc["C"] = "c_read" /\ toChild = <<>> /\ parentEnd # {}))
    /\ (pc["P"] = "p_read") ~> (pc["P"] # "p_read")
    /\ (pc["C"] = "c_read") ~> (pc["C"] # "c_read")

\* C31: a read-only remount of the loop that fails with a permission error
\* is passed over, and the loop goes on, only when isuser is set; without
\* isuser, and for every other error in either mode, setup_priv returns the
\* error at once: no later call is made.
C31_RemountTolerance ==
    \A i \in 1..Len(wlog) :
        (wlog[i].call[1] = "remount_ro" /\ wlog[i].out # "ok") =>
            IF wuser /\ wlog[i].out \in {"EACCES", "EPERM"}
            THEN ~(wres = "err" /\ i = Len(wlog))
            ELSE wres = "err" /\ wpc = "done" /\ i = Len(wlog)

\* a remount refused with EPERM in user-namespace mode, and the user binds reached
C31_Witness ==
    /\ wuser /\ wres = "binds"
    /\ \E i \in 1..Len(wlog) : wlog[i].call[1] = "remount_ro" /\ wlog[i].out = "EPERM"

\* C32: a mount under the new root with fstype cgroup, cgroup2 or debugfs
\* is lazy-unmounted by the loop exactly when isolate runs unprivileged
\* (isuser).
C32_BlacklistUnmountedWhenUser ==
    \A i \in 1..Len(wlog) :
        (/\ wlog[i].call[1] = "visit"
         /\ UnderNewRoot(wlog[i].at)
         /\ wlog[i].at.fstype \in {"cgroup", "cgroup2", "debugfs"}) =>
            ((/\ i < Len(wlog)
              /\ wlog[i + 1].call = <<"umount_lazy", wlog[i].at.mount_point>>) <=> wuser)

\* C33: maybe_umount_lazy returns Ok(true) when umount2 succeeds, Ok(false)
\* on EINVAL and an error on every other error number; the unmounts of
\* dev/shm, tmp and var/tmp under the new root end setup_priv only with
\* such another error, never because the target is not a mount point.
C33_MaybeUmountLazy ==
    /\ maybe_umount_lazy("ok") = "Ok(true)"
    /\ maybe_umount_lazy("EINVAL") = "Ok(false)"
    /\ \A e \in Errnos \ {"EINVAL"} : maybe_umount_lazy(e) = "Err"
    /\ \A i \in 1..Len(wlog) :
        wlog[i].call[1] = "maybe_umount_lazy" =>
            IF wlog[i].out \in {"ok", "EINVAL"}
            THEN ~(wres = "err" /\ i = Len(wlog))
            ELSE wres = "err" /\ i = Len(wlog)

\* root/tmp was not a mount point and the user binds were reached
C33_Witness ==
    /\ wres = "binds"
    /\ \E i \in 1..Len(wlog) :
        wlog[i].call = <<"maybe_umount_lazy", "root/tmp">> /\ wlog[i].out = "EINVAL"

\* the calls of the end of setup_priv that were made, in the order made
PivotLog ==
    SelectSeq(mlog, LAMBDA e : e[1] \in {"mkdir", "umount_lazy", "chdir", "pivot_root", "rmdir"})

\* C34: the pivot phase starts only after every item of the plan was
\* processed by both loops, and makes its calls in this order: mkdir of
\* <root>/tmp/oldroot, lazy unmount of the outer /proc, chdir to <root>,
\* pivot_root(".", "tmp/oldroot"), chdir to "/", lazy unmount of
\* /tmp/oldroot, rmdir of /tmp/oldroot; when setup_priv returns Ok all seven
\* were made, so the old root is detached and /tmp/oldroot is gone.
C34_PivotPhase ==
    LET expected == << <<"mkdir", "root/tmp/oldroot">>, <<"umount_lazy", "/proc">>,
                       <<"chdir", "root">>, <<"pivot_root", "tmp/oldroot">>,
                       <<"chdir", "/">>, <<"umount_lazy", "/tmp/oldroot">>,
                       <<"rmdir", "/tmp/oldroot">> >>
        first == CHOOSE i \in 1..Len(mlog) : mlog[i] = expected[1]
    IN  /\ Len(PivotLog) <= Len(expected)
        /\ PivotLog = SubSeq(expected, 1, Len(PivotLog))
        /\ PivotLog # <<>> =>
               /\ \A n \in 1..Len(mounts) :
                      \E j \in 1..(first - 1) :
                          mlog[j] = <<IF mounts[n][1] = "Tmp" THEN "tmpfs" ELSE "bind", mounts[n][2]>>
               /\ \A j \in first..Len(mlog) :
                      mlog[j][1] \in {"mkdir", "umount_lazy", "chdir", "pivot_root", "rmdir", "failed"}
        /\ mainpc = "pivoted" => PivotLog = expected

\* setup_priv returned Ok after binds and a tmpfs of the plan
C34_Witness ==
    /\ mainpc = "pivoted"
    /\ Len(mounts) = 2
    /\ \E j \in 1..Len(mlog) : mlog[j][1] = "tmpfs"
    /\ mlog[Len(mlog)] = <<"rmdir", "/tmp/oldroot">>

\* C35: for a Writable item whose target under the new root is missing,
\* clonedirs is called exactly when the directory of the item lies under
\* /tmp, whatever the staging directory is.
C35_CloneIffUnderTmp ==
    \A i \in 1..Len(mlog) :
        /\ mlog[i][1] = "clonedirs" => Path_starts_with(Components(mlog[i][2]), <<"tmp">>)
        /\ mlog[i][1] = "log_error" => ~Path_starts_with(Components(mlog[i][2]), <<"tmp">>)

====
